---- MODULE Spec2Model ----
(***************************************************************************)
(* Model of the nhan88ng multi-shop API: the credential service            *)
(* (app/services/auth.py), the identity and session store                  *)
(* (app/crud/user.py) with the auth endpoints that drive it                *)
(* (app/api/v1/endpoints/auth.py), and the inventory engine                *)
(* (app/crud/product.py), the permission model (app/core/permissions.py,   *)
(* app/core/deps.py), the shop registry (app/core/shop_manager.py), the    *)
(* per-shop database router (app/db/database.py) and the catalogue         *)
(* endpoints (app/api/v1/endpoints/products.py).                           *)
(*                                                                         *)
(* Every database call (find_one, insert_one, update_one, update_many,     *)
(* delete_many) is one atomic step; requests served by different workers   *)
(* interleave between database calls.                                      *)
(*                                                                         *)
(* Time: the clock `now` counts ticks, TicksPerSec ticks to the second.    *)
(* A JWT "exp" claim is a whole number of seconds (python-jose converts    *)
(* the datetime with timegm(utctimetuple())), a stored datetime keeps the  *)
(* sub-second part.  The token lifetimes of the program (30 minutes,       *)
(* 1 hour, 24 hours, 7 days, 30 days) are scaled down to a few ticks,      *)
(* none longer than one that is longer in the program.                     *)
(***************************************************************************)
EXTENDS Integers, Sequences, FiniteSets, TLC

VARIABLES
    now,             \* datetime.utcnow(), in ticks
    issued,          \* tokens handed out by the credential service, with how they were issued
    users,           \* the users collection: user id -> document
    refresh_tokens,  \* the refresh_tokens collection (unique index on "token")
    req,             \* per worker: the auth request in flight and its locals
    resp,            \* the last response returned by an auth request
    terminated,      \* history: refresh tokens seen revoked or expired
    started,         \* history: auth requests started so far
    pwd_changed,     \* history: per user, the newest password whose change_password has returned
    products,        \* the products collection of one shop
    inventory_history, \* the inventory_history collection of that shop
    ireq,            \* per worker: the update_inventory call in flight and its locals
    iresp,           \* per worker: the outcome of the last update_inventory call
    applied,         \* history: initial stock, calls started, calls succeeded and their deltas
    pcheck,          \* the last permission_checker call: role, permission, outcome
    rcheck,          \* the last role_checker call: role, required role, outcome
    _shops,          \* ShopManager._shops: the shop ids that have a configuration
    loading,         \* the _load_shops call in progress: position, entries left, outcome
    prev_shops,      \* history: the shop set of the last load that completed
    seen,            \* the shop ids the last reader of the registry got
    _shop_clients,   \* database.py cache: shop id -> MongoClient
    _shop_databases, \* database.py cache: shop id -> Database
    created,         \* history: per shop id, MongoClient and Database objects constructed
    rreq,            \* per task: the get_database call in flight and its locals
    rresp,           \* per task: what its last get_database call returned or raised
    lookups,         \* history: get_database calls and registry loads started
    accounts,        \* the users collection as registration sees it (unique index on "email")
    greq,            \* per worker: the create_user call in flight and its locals
    gresp,           \* the outcome of the last create_user, create_admin_user or authenticate_user
    signups,         \* history: registration calls started
    db,              \* per shop database: its products, categories and inventory_history collections
    product_crud,    \* per worker process: the shop whose collections product_crud's attributes hold
    creq,            \* per call: the catalogue request in flight and its locals
    cresp,           \* the last response of a catalogue request
    object_ids,      \* ObjectIds handed out so far
    ccalls,          \* history: catalogue requests started
    deletes,         \* history: per product id, delete_product calls that found the product
    reset,           \* request_password_reset: the last request, its response and its
                     \* BackgroundTasks; history: calls made and calls that scheduled an email
    listing,         \* the products collection of one shop database, with name, sku and slug
    lreq,            \* per worker: the create_product or update_product call in flight
    lresp,           \* the last response of such a call; history: calls made
    shelf,           \* one shop database: categories with parent_id, products with
                     \* category_ids, and how many documents were inserted so far
    dreq,            \* per worker: the delete_category call in flight
    dresp,           \* the outcome of the last call on these collections; history: calls answered
    goods,           \* the products collection of one shop database, with price,
                     \* compare_price, stock_quantity and allow_backorder
    ledger,          \* the inventory_history collection of that database, in insertion order
    ereq,            \* per worker: the update_inventory call in flight and its locals
    eresp,           \* the last response of a call on these collections; history: calls made
    boot             \* `shop_manager = ShopManager()` of a starting process: the sources it
                     \* finds, its position in _load_shops, its _shops and how it ended;
                     \* history: processes started

tokVars  == <<issued>>
authVars == <<users, refresh_tokens, req, resp, terminated, started, pwd_changed>>
invVars  == <<products, inventory_history, ireq, iresp, applied>>
permVars == <<pcheck, rcheck>>
regVars  == <<_shops, loading, prev_shops, seen>>
dbVars   == <<_shop_clients, _shop_databases, created, rreq, rresp, lookups>>
signVars == <<accounts, greq, gresp, signups>>
catVars  == <<db, product_crud, creq, cresp, object_ids, ccalls, deletes>>
slugVars == <<listing, lreq, lresp>>
refVars  == <<shelf, dreq, dresp>>
editVars == <<goods, ledger, ereq, eresp>>
lateVars == <<reset, slugVars, refVars, editVars, boot>>
notReset == <<slugVars, refVars, editVars, boot>>
notSlug  == <<reset, refVars, editVars, boot>>
notRef   == <<reset, slugVars, editVars, boot>>
notEdit  == <<reset, slugVars, refVars, boot>>
notBoot  == <<reset, slugVars, refVars, editVars>>
extVars  == <<permVars, regVars, dbVars, signVars, catVars, lateVars>>
vars     == <<now, issued, users, refresh_tokens, req, resp, terminated, started, pwd_changed,
              products, inventory_history, ireq, iresp, applied, extVars>>

\* ------------------------------------------------------------------ bounds

MaxNow      == 4     \* the clock stops here
MaxIssued   == 2     \* tokens tracked by the credential-service specification
MaxTTL      == 3     \* largest caller-supplied access-token lifetime, in ticks
MaxPwd      == 1     \* password changes per user
MaxRequests == 3     \* auth requests served
MaxCalls    == 2     \* update_inventory calls made
MaxStock    == 2     \* largest initial stock_quantity
MaxDelta    == 2     \* largest quantity_change, either sign
MaxLookups  == 3     \* get_database calls made
MaxLoads    == 2     \* registry reloads and add_shop calls made
MaxSignups  == 3     \* create_user and create_admin_user calls made
MaxCatCalls == 3     \* catalogue requests served
MaxNamed    == 3     \* create_product and update_product calls that carry a name
MaxRefCalls == 4     \* calls that write a category or a product reference, or delete a category
MaxEdits    == 4     \* create_product, update_product and update_inventory calls on one product
MaxBoots    == 2     \* processes started
MaxShops    == 2     \* entries of a configuration source
MaxGoods    == 1     \* products created in the collection those calls work on
MaxResets   == 2     \* request_password_reset calls made
MaxStamp    == 1     \* the clock of the catalogue specification stops here

\* ------------------------------------------------------------------ constants

TicksPerSec == 2
ACCESS_TOKEN_EXPIRE_MINUTES == 2   \* ticks; 30 minutes in the program
PASSWORD_RESET_EXPIRE       == 2   \* ticks; timedelta(hours=1)
EMAIL_VERIFICATION_EXPIRE   == 2   \* ticks; timedelta(hours=24)
REFRESH_TOKEN_EXPIRE        == 2   \* ticks; timedelta(days=7)
STORED_TOKEN_EXPIRE         == 3   \* ticks; timedelta(days=30)
\* Ticks a request can stay in flight.  Every database call is bounded by the driver's
\* timeout (serverSelectionTimeoutMS=10000), so a request is over long before a token
\* issued while it ran expires.
REQUEST_TIMEOUT             == 1

None    == "None"
NoDelta == 0 - 1     \* expires_delta=None
NoToken == [exp |-> 0, sub |-> None, email |-> None, type |-> None]
Users   == {"u1", "u2"}
Emails  == {"a@shop", "b@shop"}
Kinds   == {"access", "refresh", "password_reset", "email_verification"}
Workers == {"w1", "w2"}     \* uvicorn workers serving requests concurrently

\* ------------------------------------------------------------------ credential service

\* The "exp" claim of a datetime: whole seconds, the sub-second part dropped.
Sec(t) == t \div TicksPerSec

\* jwt.encode(to_encode, SECRET_KEY): deterministic, so a token is its payload.
Encode(exp, sub, email, type) == [exp |-> Sec(exp), sub |-> sub, email |-> email, type |-> type]

\* `if expires_delta:` is false for None and for timedelta(0).
create_access_token(subject, expires_delta, t) ==
    LET expire == IF expires_delta # NoDelta /\ expires_delta # 0
                  THEN t + expires_delta
                  ELSE t + ACCESS_TOKEN_EXPIRE_MINUTES
    IN  Encode(expire, subject, None, "access")

create_refresh_token(subject, t) ==
    Encode(t + REFRESH_TOKEN_EXPIRE, subject, None, "refresh")

create_password_reset_token(email, t) ==
    Encode(t + PASSWORD_RESET_EXPIRE, None, email, "password_reset")

create_email_verification_token(email, t) ==
    Encode(t + EMAIL_VERIFICATION_EXPIRE, None, email, "email_verification")

\* jwt.decode raises ExpiredSignatureError (a JWTError) when exp < the current second.
Decodes(token, t) == ~(token.exp < Sec(t))

verify_token_nokind(token, expected_type, t) ==
    IF ~Decodes(token, t) THEN None
    ELSE IF expected_type \in {"access", "refresh"} THEN token.sub
    ELSE IF expected_type \in {"password_reset", "email_verification"} THEN token.email
    ELSE None

verify_token(token, expected_type, t) ==
    IF ~Decodes(token, t) THEN None
    ELSE IF token.type # expected_type THEN None
    ELSE IF expected_type = "access" THEN token.sub
    ELSE IF expected_type = "refresh" THEN token.sub
    ELSE IF expected_type = "password_reset" THEN token.email
    ELSE IF expected_type = "email_verification" THEN token.email
    ELSE None

\* ------------------------------------------------------------------ identity and session store

\* refresh_tokens.insert_one under the unique index on "token": a second document
\* with the same token raises DuplicateKeyError, which store_refresh_token swallows
\* (it returns False and the collection is unchanged).  `pw` is history, not a
\* field of the document: the password the session was opened with.
store_refresh_token_upsert(rt, user_id, token, t, pw) ==
    {r \in rt : r.token # token} \cup
        {[user_id |-> user_id, token |-> token, expires_at |-> t + STORED_TOKEN_EXPIRE,
          is_active |-> TRUE, pw |-> pw]}

store_refresh_token(rt, user_id, token, t, pw) ==
    IF \E r \in rt : r.token = token
    THEN rt
    ELSE rt \cup {[user_id |-> user_id, token |-> token,
                   expires_at |-> t + STORED_TOKEN_EXPIRE, is_active |-> TRUE, pw |-> pw]}

\* find_one({"token": token, "is_active": True, "expires_at": {"$gt": utcnow()}})
validate_refresh_token_noactive(rt, token, t) ==
    LET docs == {r \in rt : r.token = token /\ r.expires_at > t}
    IN  IF docs = {} THEN None ELSE (CHOOSE r \in docs : TRUE).user_id

validate_refresh_token(rt, token, t) ==
    LET docs == {r \in rt : r.token = token /\ r.is_active /\ r.expires_at > t}
    IN  IF docs = {} THEN None ELSE (CHOOSE r \in docs : TRUE).user_id

\* update_one({"token": token}, {"$set": {"is_active": False}})
revoke_refresh_token(rt, token) ==
    {IF r.token = token THEN [r EXCEPT !.is_active = FALSE] ELSE r : r \in rt}

\* update_many({"user_id": user_id}, {"$set": {"is_active": False}})
revoke_all_user_refresh_tokens(rt, user_id) ==
    {IF r.user_id = user_id THEN [r EXCEPT !.is_active = FALSE] ELSE r : r \in rt}

\* delete_many({"expires_at": {"$lt": utcnow()}})
cleanup_expired_tokens(rt, t) == {r \in rt : ~(r.expires_at < t)}

\* The tokens of records that are revoked or past their expiry.
Terminal(rt, t) == {r.token : r \in {x \in rt : ~x.is_active \/ ~(x.expires_at > t)}}

IdleReq == [pc |-> "idle", user |-> None, token |-> NoToken, new_token |-> NoToken, pw |-> 0,
            since |-> 0]

\* ------------------------------------------------------------------ initial state

InitTok == issued = {}

InitAuth ==
    /\ users = [u \in Users |-> [is_active |-> TRUE, hashed_password |-> 0]]
    /\ refresh_tokens = {}
    /\ req = [w \in Workers |-> IdleReq]
    /\ resp = [op |-> None, status |-> 0, presented |-> NoToken, refresh_token |-> NoToken]
    /\ terminated = {}
    /\ started = 0
    /\ pwd_changed = [u \in Users |-> 0]

\* ------------------------------------------------------------------ credential-service steps

Record(token, kind, who, ttl) ==
    [token |-> token, kind |-> kind, who |-> who, at |-> now, ttl |-> ttl]

IssueAccess(s, d) ==
    /\ Cardinality(issued) < MaxIssued
    /\ issued' = issued \cup {Record(create_access_token(s, d, now), "access", s, d)}
    /\ UNCHANGED <<now, authVars, invVars, extVars>>

IssueRefresh(s) ==
    /\ Cardinality(issued) < MaxIssued
    /\ issued' = issued \cup {Record(create_refresh_token(s, now), "refresh", s, NoDelta)}
    /\ UNCHANGED <<now, authVars, invVars, extVars>>

IssuePasswordReset(e) ==
    /\ Cardinality(issued) < MaxIssued
    /\ issued' = issued \cup {Record(create_password_reset_token(e, now), "password_reset", e, NoDelta)}
    /\ UNCHANGED <<now, authVars, invVars, extVars>>

IssueEmailVerification(e) ==
    /\ Cardinality(issued) < MaxIssued
    /\ issued' = issued \cup
           {Record(create_email_verification_token(e, now), "email_verification", e, NoDelta)}
    /\ UNCHANGED <<now, authVars, invVars, extVars>>

TickTok ==
    /\ now < MaxNow
    /\ now' = now + 1
    /\ UNCHANGED <<tokVars, authVars, invVars, extVars>>

\* ------------------------------------------------------------------ auth requests

\* Every step of the session specification records the tokens that are now terminal.
Track == terminated' = terminated \cup Terminal(refresh_tokens', now')

\* A request is accepted while the bound on requests allows.
Start ==
    /\ started < MaxRequests
    /\ started' = started + 1

Respond(op, status, presented, token) ==
    resp' = [op |-> op, status |-> status, presented |-> presented, refresh_token |-> token]

\* What a client can present as a refresh token: a refresh token it was given
\* (its record may since have been revoked, expired or cleaned up), or an access token.
Presentable ==
    {r.token : r \in refresh_tokens} \cup terminated
        \cup {create_access_token(u, NoDelta, now) : u \in Users}

\* POST /login, up to the is_active check: authenticate_user (find_one by email,
\* verify_password, update_one of the login counters) on one snapshot of the user.
LoginAuthenticate(w, u, password) ==
    /\ req[w].pc = "idle"
    /\ IF u = None \/ users[u].hashed_password # password
       THEN /\ Respond("login", 401, NoToken, NoToken)
            /\ UNCHANGED req
       ELSE IF ~users[u].is_active
       THEN /\ Respond("login", 403, NoToken, NoToken)
            /\ UNCHANGED req
       ELSE /\ req' = [req EXCEPT ![w] = [IdleReq EXCEPT !.pc = "login_store", !.user = u,
                                                          !.pw = password, !.since = now]]
            /\ UNCHANGED resp
    /\ UNCHANGED <<now, users, refresh_tokens, pwd_changed, tokVars, invVars, extVars>>
    /\ Start
    /\ Track

\* POST /login, the rest: create the tokens, store_refresh_token, return them.
LoginStore(w) ==
    /\ req[w].pc = "login_store"
    /\ LET refresh_token == create_refresh_token(req[w].user, now)
       IN  /\ refresh_tokens' = store_refresh_token(refresh_tokens, req[w].user,
                                                    refresh_token, now, req[w].pw)
           /\ Respond("login", 200, NoToken, refresh_token)
    /\ req' = [req EXCEPT ![w] = IdleReq]
    /\ UNCHANGED <<now, users, pwd_changed, tokVars, invVars, extVars>>
    /\ UNCHANGED started
    /\ Track

\* POST /refresh: verify_token(token, "refresh"), then validate_refresh_token.
RefreshValidate(w, token) ==
    /\ req[w].pc = "idle"
    /\ LET user_id        == verify_token(token, "refresh", now)
           stored_user_id == validate_refresh_token(refresh_tokens, token, now)
       IN  IF user_id = None \/ stored_user_id = None \/ stored_user_id # user_id
           THEN /\ Respond("refresh", 401, token, NoToken)
                /\ UNCHANGED req
           ELSE /\ req' = [req EXCEPT ![w] =
                            [IdleReq EXCEPT !.pc = "refresh_get_user", !.user = user_id,
                                            !.token = token, !.since = now,
                                            !.pw = (CHOOSE r \in refresh_tokens :
                                                        r.token = token).pw]]
                /\ UNCHANGED resp
    /\ UNCHANGED <<now, users, refresh_tokens, pwd_changed, tokVars, invVars, extVars>>
    /\ Start
    /\ Track

\* POST /refresh: get_user_by_id and the is_active check, then the new tokens are made.
RefreshGetUser(w) ==
    /\ req[w].pc = "refresh_get_user"
    /\ IF ~users[req[w].user].is_active
       THEN /\ Respond("refresh", 404, req[w].token, NoToken)
            /\ req' = [req EXCEPT ![w] = IdleReq]
       ELSE /\ req' = [req EXCEPT ![w].pc = "refresh_revoke",
                                  ![w].new_token = create_refresh_token(req[w].user, now)]
            /\ UNCHANGED resp
    /\ UNCHANGED <<now, users, refresh_tokens, pwd_changed, tokVars, invVars, extVars>>
    /\ UNCHANGED started
    /\ Track

\* POST /refresh: revoke_refresh_token(old token).
RefreshRevoke(w) ==
    /\ req[w].pc = "refresh_revoke"
    /\ refresh_tokens' = revoke_refresh_token(refresh_tokens, req[w].token)
    /\ req' = [req EXCEPT ![w].pc = "refresh_store"]
    /\ UNCHANGED <<now, users, resp, pwd_changed, tokVars, invVars, extVars>>
    /\ UNCHANGED started
    /\ Track

\* POST /refresh: store_refresh_token(new token), return the new tokens.
RefreshStore(w) ==
    /\ req[w].pc = "refresh_store"
    /\ refresh_tokens' = store_refresh_token(refresh_tokens, req[w].user, req[w].new_token,
                                             now, req[w].pw)
    /\ Respond("refresh", 200, req[w].token, req[w].new_token)
    /\ req' = [req EXCEPT ![w] = IdleReq]
    /\ UNCHANGED <<now, users, pwd_changed, tokVars, invVars, extVars>>
    /\ UNCHANGED started
    /\ Track

\* POST /logout: revoke_refresh_token(token), always "Logged out successfully".
Logout(w, token) ==
    /\ req[w].pc = "idle"
    /\ refresh_tokens' = revoke_refresh_token(refresh_tokens, token)
    /\ Respond("logout", 200, token, NoToken)
    /\ UNCHANGED <<now, users, req, pwd_changed, tokVars, invVars, extVars>>
    /\ Start
    /\ Track

\* change_password: update_one sets the new hash (a password not used before).
ChangePasswordUpdate(w, u) ==
    /\ req[w].pc = "idle"
    /\ users[u].hashed_password < MaxPwd
    /\ users' = [users EXCEPT ![u].hashed_password = @ + 1]
    /\ req' = [req EXCEPT ![w] = [IdleReq EXCEPT !.pc = "change_password_revoke", !.user = u,
                                                  !.since = now,
                                                  !.pw = users[u].hashed_password + 1]]
    /\ UNCHANGED <<now, refresh_tokens, resp, pwd_changed, tokVars, invVars, extVars>>
    /\ Start
    /\ Track

\* change_password: revoke_all_user_refresh_tokens, then it returns.
ChangePasswordRevoke(w) ==
    /\ req[w].pc = "change_password_revoke"
    /\ refresh_tokens' = revoke_all_user_refresh_tokens(refresh_tokens, req[w].user)
    /\ pwd_changed' = [pwd_changed EXCEPT ![req[w].user] =
                          IF req[w].pw > @ THEN req[w].pw ELSE @]
    /\ Respond("change_password", 200, NoToken, NoToken)
    /\ req' = [req EXCEPT ![w] = IdleReq]
    /\ UNCHANGED <<now, users, tokVars, invVars, extVars>>
    /\ UNCHANGED started
    /\ Track

\* deactivate_user: update_one sets is_active False.
DeactivateUpdate(w, u) ==
    /\ req[w].pc = "idle"
    /\ users' = [users EXCEPT ![u].is_active = FALSE]
    /\ req' = [req EXCEPT ![w] = [IdleReq EXCEPT !.pc = "deactivate_revoke", !.user = u,
                                                  !.since = now]]
    /\ UNCHANGED <<now, refresh_tokens, resp, pwd_changed, tokVars, invVars, extVars>>
    /\ Start
    /\ Track

\* deactivate_user: revoke_all_user_refresh_tokens, then it returns.
DeactivateRevoke(w) ==
    /\ req[w].pc = "deactivate_revoke"
    /\ refresh_tokens' = revoke_all_user_refresh_tokens(refresh_tokens, req[w].user)
    /\ Respond("deactivate", 200, NoToken, NoToken)
    /\ req' = [req EXCEPT ![w] = IdleReq]
    /\ UNCHANGED <<now, users, pwd_changed, tokVars, invVars, extVars>>
    /\ UNCHANGED started
    /\ Track

\* activate_user: update_one sets is_active True; no token is touched.
ActivateUser(w, u) ==
    /\ req[w].pc = "idle"
    /\ ~users[u].is_active
    /\ users' = [users EXCEPT ![u].is_active = TRUE]
    /\ Respond("activate", 200, NoToken, NoToken)
    /\ UNCHANGED <<now, refresh_tokens, req, pwd_changed, tokVars, invVars, extVars>>
    /\ Start
    /\ Track

\* cleanup_expired_tokens, and the TTL index on expires_at (expireAfterSeconds=0).
CleanupExpiredTokens ==
    /\ refresh_tokens' = cleanup_expired_tokens(refresh_tokens, now)
    /\ refresh_tokens' # refresh_tokens
    /\ UNCHANGED <<now, users, req, resp, pwd_changed, tokVars, invVars, extVars>>
    /\ UNCHANGED started
    /\ Track

TickAuth ==
    /\ now < MaxNow
    /\ \A w \in Workers : req[w].pc # "idle" => (now + 1) - req[w].since <= REQUEST_TIMEOUT
    /\ now' = now + 1
    /\ UNCHANGED <<users, refresh_tokens, req, resp, pwd_changed, tokVars, invVars, extVars>>
    /\ UNCHANGED started
    /\ Track

\* ------------------------------------------------------------------ inventory engine

ProductIds == {"p1"}       \* the products of the shop
UnknownId  == "p0"         \* an id no product has
Deltas     == (0 - MaxDelta)..MaxDelta

IdleCall == [pc |-> "idle", product_id |-> UnknownId, quantity_change |-> 0,
             current_quantity |-> 0, new_quantity |-> 0]

\* The catalogues update_inventory can find: every stock level, with and
\* without backorder.
Catalogues == [ProductIds -> [stock_quantity : 0..MaxStock, allow_backorder : BOOLEAN]]

\* The catalogue of the specifications that never touch it.
EmptyCatalogue == [p \in ProductIds |-> [stock_quantity |-> 0, allow_backorder |-> FALSE]]

InitInv(catalogue) ==
    /\ products = catalogue
    /\ inventory_history = <<>>
    /\ ireq = [w \in Workers |-> IdleCall]
    /\ iresp = [product_id |-> UnknownId, quantity_change |-> 0, result |-> None]
    /\ applied = [initial |-> [p \in ProductIds |-> products[p].stock_quantity],
                  started |-> 0, succeeded |-> 0, sum |-> 0]

\* `if new_quantity < 0 and not product.get("allow_backorder", False)`
Insufficient_flag_inverted(product, new_quantity) ==
    new_quantity < 0 /\ product.allow_backorder

Insufficient(product, new_quantity) ==
    new_quantity < 0 /\ ~product.allow_backorder

\* update_inventory: find_one({"_id", "shop"}), then the check on the document read.
InvRead(w, product_id, quantity_change) ==
    /\ ireq[w].pc = "idle"
    /\ applied.started < MaxCalls
    /\ applied' = [applied EXCEPT !.started = @ + 1]
    /\ IF product_id \notin DOMAIN products
       THEN /\ iresp' = [product_id |-> product_id, quantity_change |-> quantity_change,
                         result |-> "Product not found"]
            /\ UNCHANGED ireq
       ELSE LET product          == products[product_id]
                current_quantity == product.stock_quantity
                new_quantity     == current_quantity + quantity_change
            IN  IF Insufficient(product, new_quantity)
                THEN /\ iresp' = [product_id |-> product_id,
                                  quantity_change |-> quantity_change,
                                  result |-> "Insufficient inventory"]
                     /\ UNCHANGED ireq
                ELSE /\ ireq' = [ireq EXCEPT ![w] =
                                    [pc |-> "inv_write", product_id |-> product_id,
                                     quantity_change |-> quantity_change,
                                     current_quantity |-> current_quantity,
                                     new_quantity |-> new_quantity]]
                     /\ UNCHANGED iresp
    /\ UNCHANGED <<now, products, inventory_history, tokVars, authVars, extVars>>

\* update_inventory: update_one({"_id"}, {"$set": {"stock_quantity": new_quantity}})
InvWrite(w) ==
    /\ ireq[w].pc = "inv_write"
    /\ products' = [products EXCEPT ![ireq[w].product_id].stock_quantity = ireq[w].new_quantity]
    /\ ireq' = [ireq EXCEPT ![w].pc = "inv_history"]
    /\ UNCHANGED <<now, inventory_history, iresp, applied, tokVars, authVars, extVars>>

\* update_inventory: inventory_history.insert_one(history_doc)
InvHistory(w) ==
    /\ ireq[w].pc = "inv_history"
    /\ inventory_history' = Append(inventory_history,
           [product_id |-> ireq[w].product_id,
            quantity_before |-> ireq[w].current_quantity,
            quantity_change |-> ireq[w].quantity_change,
            quantity_after |-> ireq[w].new_quantity])
    /\ ireq' = [ireq EXCEPT ![w].pc = "inv_return"]
    /\ UNCHANGED <<now, products, iresp, applied, tokVars, authVars, extVars>>

\* update_inventory: find_one of the updated product, which is returned.
InvReturn(w) ==
    /\ ireq[w].pc = "inv_return"
    /\ iresp' = [product_id |-> ireq[w].product_id,
                 quantity_change |-> ireq[w].quantity_change, result |-> "ok"]
    /\ applied' = [applied EXCEPT !.succeeded = @ + 1, !.sum = @ + ireq[w].quantity_change]
    /\ ireq' = [ireq EXCEPT ![w] = IdleCall]
    /\ UNCHANGED <<now, products, inventory_history, tokVars, authVars, extVars>>

\* No permission or role check has been made.
InitPerm ==
    /\ pcheck = [role |-> None, permission |-> None, status |-> 0]
    /\ rcheck = [role |-> None, required_role |-> None, status |-> 0]

\* The shop ids a configuration source can name, and the other ids a request can carry.
ShopIds == {"tinashop", "micocah"}
OtherIds == {"shared", "ghostshop"}
Tasks == {"t1", "t2"}

\* shops.json as it can be found on disk: not JSON at all, or a JSON object whose
\* entries, in file order, do or do not carry every key ShopConfig.from_dict reads.
ShopEntry(id, complete) == [id |-> id, complete |-> complete]
ConfigSources ==
    { [json |-> FALSE, shops |-> <<>>],
      [json |-> TRUE, shops |-> <<ShopEntry("tinashop", TRUE), ShopEntry("micocah", TRUE)>>],
      [json |-> TRUE, shops |-> <<ShopEntry("tinashop", TRUE)>>],
      [json |-> TRUE, shops |-> <<ShopEntry("tinashop", TRUE), ShopEntry("micocah", FALSE)>>] }

IdsOf(shops) == {shops[i].id : i \in 1..Len(shops)}
Complete(shops) == \A i \in 1..Len(shops) : shops[i].complete

NotLoading == [pc |-> "idle", shops |-> <<>>, target |-> {}, result |-> None]
\* Handles: a MongoClient is told apart by the shop it was built for and by how
\* many were built for that shop before it, a Database by its client and likewise.
NoClient == [shop |-> None, serial |-> 0]
NoDatabase == [client |-> NoClient, serial |-> 0]
db_shared == [client |-> [shop |-> "shared", serial |-> 1], serial |-> 1]
IdleLookup == [pc |-> "idle", shop |-> None, client |-> NoClient]
NoAnswer == [shop |-> None, database |-> NoDatabase, error |-> None, valid |-> FALSE, call |-> 0]

\* `shop_manager = ShopManager()` has loaded both shops; the caches are empty.
InitRouter ==
    /\ _shops = ShopIds
    /\ loading = NotLoading
    /\ prev_shops = ShopIds
    /\ seen = [shops |-> ShopIds, previous |-> ShopIds, new |-> ShopIds]
    /\ _shop_clients = [s \in ShopIds |-> NoClient]
    /\ _shop_databases = [s \in ShopIds |-> NoDatabase]
    /\ created = [s \in ShopIds |-> [clients |-> 0, databases |-> 0]]
    /\ rreq = [t \in Tasks |-> IdleLookup]
    /\ rresp = [t \in Tasks |-> NoAnswer]
    /\ lookups = [calls |-> 0, loads |-> 0, answers |-> 0]

IdleSignup == [pc |-> "idle", email |-> None, password |-> None]

\* No user has registered.
InitSignup ==
    /\ accounts = {}
    /\ greq = [w \in Workers |-> IdleSignup]
    /\ gresp = [op |-> None, email |-> None, password |-> None, result |-> None]
    /\ signups = 0

\* The catalogue calls in flight at once, and the worker process that serves each.
Calls == {"c1", "c2", "c3"}
ProcOf == [c \in Calls |-> IF c = "c3" THEN "w2" ELSE "w1"]

Earlier(o, c) == <<o, c>> \in {<<"c1", "c2">>}
NoCaller == [role |-> None, shop |-> None]
IdleCatalogue == [pc |-> "idle", op |-> None, caller |-> NoCaller, shop |-> None, id |-> 0,
                  sku |-> None, status |-> None, quantity_change |-> 0,
                  current_quantity |-> 0, new_quantity |-> 0]
NoResponse == [op |-> None, caller |-> NoCaller, shop |-> None, id |-> 0, status |-> 0]

\* Empty shop databases; product_crud's collection attributes are None.
InitCatalogue ==
    /\ db = [shop \in ShopIds |-> [products |-> {}, categories |-> {}, inventory_history |-> {}]]
    /\ product_crud = [w \in Workers |-> None]
    /\ creq = [c \in Calls |-> IdleCatalogue]
    /\ cresp = NoResponse
    /\ object_ids = 0
    /\ ccalls = 0
    /\ deletes = [id \in 1..MaxCatCalls |-> 0]

\* What POST /auth/request-password-reset answers, whatever the address.
ResetAccepted == [status |-> 200, message |-> "If the email exists, a reset link has been sent"]
NoMessage == [status |-> 0, message |-> None]

InitReset ==
    reset = [calls |-> 0, scheduled |-> 0, email |-> None, response |-> NoMessage,
             background_tasks |-> <<>>]

IdleNamed == [pc |-> "idle", id |-> 0, sku |-> None, name |-> <<>>, slug |-> <<>>]
NoListing == [op |-> None, status |-> 0, id |-> 0, sku |-> None, name |-> <<>>, slug |-> <<>>,
              call |-> 0]

\* An empty products collection.
InitSlug ==
    /\ listing = {}
    /\ lreq = [w \in Workers |-> IdleNamed]
    /\ lresp = NoListing

NoParent == 0      \* parent_id = None
IdleDelete == [pc |-> "idle", id |-> 0]

\* Empty categories and products collections.
InitRefs ==
    /\ shelf = [categories |-> {}, products |-> {}, inserted |-> 0]
    /\ dreq = [w \in Workers |-> IdleDelete]
    /\ dresp = [op |-> None, id |-> 0, status |-> 0, call |-> 0]

NoCompare == 0     \* compare_price = None
IdleEdit == [pc |-> "idle", product_id |-> 0, current_quantity |-> 0, quantity_change |-> 0,
             new_quantity |-> 0]

\* Empty products and inventory_history collections.
InitEdit ==
    /\ goods = {}
    /\ ledger = <<>>
    /\ ereq = [w \in Workers |-> IdleEdit]
    /\ eresp = [op |-> None, status |-> 0, call |-> 0]

\* No shops.json, SHOPS_CONFIG unset.
NoSource == [exists |-> FALSE, json |-> FALSE, shops |-> <<>>]

\* No process has been started.
InitBoot ==
    boot = [pc |-> "idle", config_file |-> NoSource, SHOPS_CONFIG |-> NoSource,
            shops |-> <<>>, _shops |-> {}, source |-> None, result |-> None, boots |-> 0]

InitLate == InitReset /\ InitSlug /\ InitRefs /\ InitEdit /\ InitBoot

InitExt == InitPerm /\ InitRouter /\ InitSignup /\ InitCatalogue /\ InitLate

Init == now = 0 /\ InitTok /\ InitAuth /\ InitExt /\ \E catalogue \in Catalogues : InitInv(catalogue)

\* The same construction with an empty stock room, for the specifications of
\* the credential service and the session store.
InitIdleStock == now = 0 /\ InitTok /\ InitAuth /\ InitExt /\ InitInv(EmptyCatalogue)

\* The inventory engine alone.
NextInv ==
    \/ \E w \in Workers, product_id \in ProductIds \cup {UnknownId}, d \in Deltas :
           InvRead(w, product_id, d)
    \/ \E w \in Workers : InvWrite(w)
    \/ \E w \in Workers : InvHistory(w)
    \/ \E w \in Workers : InvReturn(w)

SpecInv == Init /\ [][NextInv]_vars

\* ------------------------------------------------------------------ specifications

\* The credential service alone: tokens are issued and the clock runs.
NextTok ==
    \/ \E s \in Users, d \in (0..MaxTTL) \cup {NoDelta} : IssueAccess(s, d)
    \/ \E s \in Users : IssueRefresh(s)
    \/ \E e \in Emails : IssuePasswordReset(e)
    \/ \E e \in Emails : IssueEmailVerification(e)
    \/ TickTok

SpecTok == InitIdleStock /\ [][NextTok]_vars

\* The identity and session store under concurrent auth requests.
NextAuth ==
    \/ \E w \in Workers, u \in Users \cup {None}, password \in 0..MaxPwd :
           LoginAuthenticate(w, u, password)
    \/ \E w \in Workers : LoginStore(w)
    \/ \E w \in Workers : \E token \in Presentable : RefreshValidate(w, token)
    \/ \E w \in Workers : RefreshGetUser(w)
    \/ \E w \in Workers : RefreshRevoke(w)
    \/ \E w \in Workers : RefreshStore(w)
    \/ \E w \in Workers : \E token \in Presentable : Logout(w, token)
    \/ \E w \in Workers, u \in Users : ChangePasswordUpdate(w, u)
    \/ \E w \in Workers : ChangePasswordRevoke(w)
    \/ \E w \in Workers, u \in Users : DeactivateUpdate(w, u)
    \/ \E w \in Workers : DeactivateRevoke(w)
    \/ \E w \in Workers, u \in Users : ActivateUser(w, u)
    \/ CleanupExpiredTokens
    \/ TickAuth

SpecAuth == InitIdleStock /\ [][NextAuth]_vars

\* ------------------------------------------------------------------ claims: credential service

\* C9: a token issued as one kind is rejected by verify_token for every other kind,
\* whether or not it has expired.
C9_CrossKindRejected ==
    \A i \in issued : \A k \in Kinds \ {i.kind} : verify_token(i.token, k, now) = None

\* C9 witness: an access token that still verifies as access, next to a token that has expired.
C9_Witness ==
    \E i, j \in issued :
        /\ i.kind = "access" /\ verify_token(i.token, "access", now) = i.who
        /\ ~Decodes(j.token, now)

\* C10: an access token issued at time t with caller-supplied lifetime d >= 0 verifies
\* as access to its subject at every time before t + d, and is invalid at every time
\* after t + d.
C10_AccessTokenLifetime ==
    \A i \in issued :
        (i.kind = "access" /\ i.ttl # NoDelta) =>
            /\ now < i.at + i.ttl => verify_token(i.token, "access", now) = i.who
            /\ now > i.at + i.ttl => verify_token(i.token, "access", now) = None

\* ------------------------------------------------------------------ claims: sessions

Accepted(token) == validate_refresh_token(refresh_tokens, token, now) # None

\* C3: once change_password has returned, no refresh token of the user that stems
\* from a login with an older password is accepted by validate_refresh_token.
C3_OldSessionsRevoked ==
    \A r \in refresh_tokens : Accepted(r.token) => r.pw >= pwd_changed[r.user_id]

Deactivating(u) == \E w \in Workers : req[w].pc = "deactivate_revoke" /\ req[w].user = u

\* C4: after deactivate_user has returned and until activate_user, no refresh-token
\* record of the user has its active flag set.
C4_DisabledHasNoLiveSession ==
    \A u \in Users :
        (~users[u].is_active /\ ~Deactivating(u)) =>
            \A r \in refresh_tokens : r.user_id = u => ~r.is_active

StoreStep(w) ==
    /\ req[w].pc \in {"login_store", "refresh_store"}
    /\ req'[w].pc = "idle"

LogoutStep ==
    /\ started' = started + 1
    /\ req' = req
    /\ resp'.op = "logout"

\* C5: create_refresh_token then store_refresh_token makes validate_refresh_token
\* return the subject; after revoke_refresh_token it returns nothing.
C5_RefreshRoundTrip ==
    [][ /\ \A w \in Workers :
              StoreStep(w) =>
                  validate_refresh_token(refresh_tokens', resp'.refresh_token, now')
                      = req[w].user
        /\ LogoutStep =>
              validate_refresh_token(refresh_tokens', resp'.presented, now') = None ]_vars

\* The refresh endpoint's acceptance condition, read off the collection.
Live(token) ==
    /\ token.type = "refresh"
    /\ token.exp >= Sec(now)
    /\ \E r \in refresh_tokens :
           /\ r.token = token
           /\ r.is_active
           /\ r.expires_at > now
           /\ r.user_id = token.sub

RefreshRejectStep ==
    /\ started' = started + 1
    /\ req' = req
    /\ resp'.op = "refresh"

\* C6: a refresh request goes on to issue tokens only if the presented token verifies
\* as refresh and an active, unexpired record with that token and the token's subject
\* exists; otherwise it is answered 401 and the collection is unchanged.
C6_RefreshRequiresLiveRecord ==
    [][ /\ \A w \in Workers :
              (req[w].pc = "idle" /\ req'[w].pc = "refresh_get_user") => Live(req'[w].token)
        /\ RefreshRejectStep =>
              /\ ~Live(resp'.presented)
              /\ resp'.status = 401
              /\ refresh_tokens' = refresh_tokens ]_vars

\* C6 witness: a refresh answered 401 for a token that still decodes but whose record
\* is inactive.
C6_Witness ==
    /\ resp.op = "refresh" /\ resp.status = 401
    /\ Decodes(resp.presented, now)
    /\ \E r \in refresh_tokens :
           r.token = resp.presented /\ ~r.is_active /\ r.expires_at > now

\* C7: the refresh token a successful login returns is accepted by
\* validate_refresh_token, for the user who logged in, right after the login.
C7_LoginTokenIsValid ==
    [][ \A w \in Workers :
            (req[w].pc = "login_store" /\ req'[w].pc = "idle") =>
                validate_refresh_token(refresh_tokens', resp'.refresh_token, now')
                    = req[w].user ]_vars

C1_NoLostInventoryUpdate ==
    (\A w \in Workers : ireq[w].pc = "idle") =>
        /\ \A p \in ProductIds :
               products[p].stock_quantity = applied.initial[p] + applied.sum
        /\ Len(inventory_history) = applied.succeeded

Short(product_id, quantity_change) ==
    /\ product_id \in DOMAIN products
    /\ ~products[product_id].allow_backorder
    /\ products[product_id].stock_quantity + quantity_change < 0

\* C2: update_inventory on a product without backorder, with a delta that would take
\* the stock below zero, fails with "Insufficient inventory", leaves the stock as it
\* was and appends no history entry; no such call goes on to write.
C2_InsufficientInventoryRejected ==
    [][ applied'.started = applied.started + 1 =>
          /\ \A w \in Workers :
                 ireq'[w] # ireq[w] =>
                     ~Short(ireq'[w].product_id, ireq'[w].quantity_change)
          /\ (ireq' = ireq /\ Short(iresp'.product_id, iresp'.quantity_change)) =>
                 /\ iresp'.result = "Insufficient inventory"
                 /\ products' = products
                 /\ inventory_history' = inventory_history ]_vars

\* C2 witness: the last call was refused for insufficient inventory on a product
\* that does not allow backorder.
C2_Witness ==
    /\ iresp.result = "Insufficient inventory"
    /\ ~products[iresp.product_id].allow_backorder
    /\ products[iresp.product_id].stock_quantity + iresp.quantity_change < 0

\* ------------------------------------------------------------------ permission model

\* class UserRole, class Permission
UserRole == {"customer", "admin", "super_admin"}
Permission == {"user:read", "user:write", "user:delete",
               "product:read", "product:write", "product:delete",
               "order:read", "order:write", "order:delete",
               "admin:panel", "system:config"}

ROLE_PERMISSIONS ==
    [role \in UserRole |->
        CASE role = "customer" ->
                 {"product:read", "order:read", "order:write"}
          [] role = "admin" ->
                 {"user:read", "user:write",
                  "product:read", "product:write", "product:delete",
                  "order:read", "order:write", "order:delete",
                  "admin:panel"}
          [] role = "super_admin" ->
                 {"user:read", "user:write", "user:delete",
                  "product:read", "product:write", "product:delete",
                  "order:read", "order:write", "order:delete",
                  "admin:panel", "system:config"}]

\* `return permission in ROLE_PERMISSIONS.get(user_role, [])`
has_permission_any_product(user_role, permission) ==
    IF user_role \in DOMAIN ROLE_PERMISSIONS
    THEN \E held \in ROLE_PERMISSIONS[user_role] : held \in {"product:read", permission}
    ELSE FALSE

has_permission(user_role, permission) ==
    IF user_role \in DOMAIN ROLE_PERMISSIONS
    THEN permission \in ROLE_PERMISSIONS[user_role]
    ELSE FALSE

get_user_permissions(user_role) ==
    IF user_role \in DOMAIN ROLE_PERMISSIONS THEN ROLE_PERMISSIONS[user_role] ELSE {}

\* require_permission(permission): the status the dependency answers with,
\* 200 standing for "the request goes on to the handler".
permission_checker(user_role, permission) ==
    IF ~has_permission(user_role, permission) THEN 403 ELSE 200

role_hierarchy == [role \in UserRole |->
                     CASE role = "customer" -> 0 [] role = "admin" -> 1 [] role = "super_admin" -> 2]

\* require_role(required_role), the same way.
role_checker_admin_only(user_role, required_role) ==
    IF user_role = "super_admin" THEN 200
    ELSE IF role_hierarchy[user_role] < 1 THEN 403
    ELSE 200

role_checker(user_role, required_role) ==
    IF user_role = "super_admin" THEN 200
    ELSE IF role_hierarchy[user_role] < role_hierarchy[required_role] THEN 403
    ELSE 200

\* A request reaches an operation gated by require_permission(permission).
PermissionCheck(user_role, permission) ==
    /\ pcheck' = [role |-> user_role, permission |-> permission,
                  status |-> permission_checker(user_role, permission)]
    /\ UNCHANGED <<now, tokVars, authVars, invVars, lateVars, rcheck, regVars, dbVars, signVars, catVars>>

\* A request reaches an operation gated by require_role(required_role).
RoleCheck(user_role, required_role) ==
    /\ rcheck' = [role |-> user_role, required_role |-> required_role,
                  status |-> role_checker(user_role, required_role)]
    /\ UNCHANGED <<now, tokVars, authVars, invVars, lateVars, pcheck, regVars, dbVars, signVars, catVars>>

NextPerm ==
    \/ \E user_role \in UserRole, permission \in Permission : PermissionCheck(user_role, permission)
    \/ \E user_role \in UserRole, required_role \in UserRole : RoleCheck(user_role, required_role)

SpecPerm == InitIdleStock /\ [][NextPerm]_vars

\* ------------------------------------------------------------------ shop registry and database router

\* Every endpoint is an `async def` that calls the registry and the router without
\* awaiting in between, so within the process a call runs to its end on the event
\* loop before another call starts: x may take a step only while no other call is
\* part-way through.
OnLoop_threads(x) == TRUE

OnLoop(x) ==
    /\ \A t \in Tasks \ {x} : rreq[t].pc = "idle"
    /\ x # "reload" => loading.pc = "idle"

\* ShopManager.is_valid_shop, ShopManager.get_shop
is_valid_shop(shop_id) == shop_id \in _shops
get_shop(shop_id) == IF shop_id \in _shops THEN shop_id ELSE None

\* ShopManager.reload -> _load_shops, the file exists: json.load, then
\* `self._shops = {}`.  Text that is not JSON raises ValueError before the
\* assignment.
ReloadOpen(source) ==
    /\ loading.pc = "idle"
    /\ lookups.loads < MaxLoads
    /\ OnLoop("reload")
    /\ lookups' = [lookups EXCEPT !.loads = @ + 1]
    /\ IF ~source.json
       THEN /\ loading' = [NotLoading EXCEPT !.result = "ValueError"]
            /\ UNCHANGED _shops
       ELSE /\ _shops' = {}
            /\ loading' = [pc |-> "fill", shops |-> source.shops,
                           target |-> IF Complete(source.shops)
                                      THEN IdsOf(source.shops) ELSE prev_shops,
                           result |-> None]
    /\ UNCHANGED <<now, tokVars, authVars, invVars, lateVars, permVars, signVars, catVars, prev_shops, seen,
                   _shop_clients, _shop_databases, created, rreq, rresp>>

\* `self._shops[shop_id] = ShopConfig.from_dict(shop_id, shop_data)` for the next
\* entry; from_dict raises KeyError on an entry that lacks a key, which leaves
\* _load_shops as RuntimeError.
ReloadEntry ==
    /\ loading.pc = "fill"
    /\ loading.shops # <<>>
    /\ OnLoop("reload")
    /\ IF Head(loading.shops).complete
       THEN /\ _shops' = _shops \cup {Head(loading.shops).id}
            /\ loading' = [loading EXCEPT !.shops = Tail(@)]
       ELSE /\ loading' = [NotLoading EXCEPT !.result = "RuntimeError"]
            /\ UNCHANGED _shops
    /\ UNCHANGED <<now, tokVars, authVars, invVars, lateVars, permVars, signVars, catVars, prev_shops, seen, dbVars>>

\* The loop is over: _load_shops returns.
ReloadReturn ==
    /\ loading.pc = "fill"
    /\ loading.shops = <<>>
    /\ OnLoop("reload")
    /\ loading' = [NotLoading EXCEPT !.result = "loaded"]
    /\ prev_shops' = _shops
    /\ UNCHANGED <<now, tokVars, authVars, invVars, lateVars, permVars, signVars, catVars, _shops, seen, dbVars>>

\* ShopManager.add_shop(shop_id, shop_data)
AddShop(shop_id, complete) ==
    /\ loading.pc = "idle"
    /\ lookups.loads < MaxLoads
    /\ OnLoop("reload")
    /\ lookups' = [lookups EXCEPT !.loads = @ + 1]
    /\ IF complete
       THEN /\ _shops' = _shops \cup {shop_id}
            /\ prev_shops' = _shops \cup {shop_id}
       ELSE UNCHANGED <<_shops, prev_shops>>
    /\ UNCHANGED <<now, tokVars, authVars, invVars, lateVars, permVars, signVars, catVars, loading, seen,
                   _shop_clients, _shop_databases, created, rreq, rresp>>

\* ShopManager.get_shop_ids / get_all_shops, as the shops endpoints call them.
ReadRegistry ==
    /\ OnLoop("reader")
    /\ seen' = [shops |-> _shops, previous |-> prev_shops,
                new |-> IF loading.pc = "fill" THEN loading.target ELSE prev_shops]
    /\ UNCHANGED <<now, tokVars, authVars, invVars, lateVars, permVars, signVars, catVars, _shops, loading, prev_shops, dbVars>>

\* get_database returns or raises; `valid` and `call` are history: whether the
\* registry had the shop, and which answer this is.
Answer(t, shop, database, error, calls) ==
    /\ rresp' = [rresp EXCEPT ![t] = [shop |-> shop, database |-> database, error |-> error,
                                      valid |-> is_valid_shop(shop),
                                      call |-> lookups.answers + 1]]
    /\ rreq' = [rreq EXCEPT ![t] = IdleLookup]
    /\ lookups' = [lookups EXCEPT !.answers = @ + 1, !.calls = calls]

\* get_database(shop) up to the cache probe of get_shop_database.
GetDatabase(t, shop) ==
    /\ rreq[t].pc = "idle"
    /\ lookups.calls < MaxLookups
    /\ OnLoop(t)
    /\ IF shop = "shared"
       THEN Answer(t, shop, db_shared, None, lookups.calls + 1)
       ELSE IF ~is_valid_shop(shop)
       THEN Answer(t, shop, NoDatabase, "Unknown shop", lookups.calls + 1)
       ELSE IF _shop_databases[shop] # NoDatabase
       THEN Answer(t, shop, _shop_databases[shop], None, lookups.calls + 1)
       ELSE /\ rreq' = [rreq EXCEPT ![t] = [pc |-> "get_shop_client", shop |-> shop, client |-> NoClient]]
            /\ lookups' = [lookups EXCEPT !.calls = @ + 1]
            /\ UNCHANGED rresp
    /\ UNCHANGED <<now, tokVars, authVars, invVars, lateVars, permVars, signVars, catVars, regVars,
                   _shop_clients, _shop_databases, created>>

\* get_shop_client up to and including `client = MongoClient(...)`.
GetShopClient(t) ==
    /\ rreq[t].pc = "get_shop_client"
    /\ OnLoop(t)
    /\ LET shop == rreq[t].shop IN
       IF _shop_clients[shop] # NoClient
       THEN /\ rreq' = [rreq EXCEPT ![t].pc = "get_default_database",
                                    ![t].client = _shop_clients[shop]]
            /\ UNCHANGED <<rresp, created, lookups>>
       ELSE IF get_shop(shop) = None
       THEN /\ Answer(t, shop, NoDatabase, "not found in configuration", lookups.calls)
            /\ UNCHANGED created
       ELSE /\ created' = [created EXCEPT ![shop].clients = @ + 1]
            /\ rreq' = [rreq EXCEPT ![t].pc = "cache_client",
                                    ![t].client = [shop |-> shop,
                                                   serial |-> created[shop].clients + 1]]
            /\ UNCHANGED <<rresp, lookups>>
    /\ UNCHANGED <<now, tokVars, authVars, invVars, lateVars, permVars, signVars, catVars, regVars,
                   _shop_clients, _shop_databases>>

\* `_shop_clients[shop_id] = client; return client`
CacheClient(t) ==
    /\ rreq[t].pc = "cache_client"
    /\ OnLoop(t)
    /\ _shop_clients' = [_shop_clients EXCEPT ![rreq[t].shop] = rreq[t].client]
    /\ rreq' = [rreq EXCEPT ![t].pc = "get_default_database"]
    /\ UNCHANGED <<now, tokVars, authVars, invVars, lateVars, permVars, signVars, catVars, regVars,
                   _shop_databases, created, rresp, lookups>>

\* `database = client.get_default_database(); _shop_databases[shop_id] = database;
\* return database`
GetDefaultDatabase(t) ==
    /\ rreq[t].pc = "get_default_database"
    /\ OnLoop(t)
    /\ LET shop == rreq[t].shop
           database == [client |-> rreq[t].client, serial |-> created[shop].databases + 1]
       IN  /\ created' = [created EXCEPT ![shop].databases = @ + 1]
           /\ _shop_databases' = [_shop_databases EXCEPT ![shop] = database]
           /\ Answer(t, shop, database, None, lookups.calls)
    /\ UNCHANGED <<now, tokVars, authVars, invVars, lateVars, permVars, signVars, catVars, regVars, _shop_clients>>

NextRouter ==
    \/ \E source \in ConfigSources : ReloadOpen(source)
    \/ ReloadEntry
    \/ ReloadReturn
    \/ \E shop_id \in ShopIds, complete \in BOOLEAN : AddShop(shop_id, complete)
    \/ ReadRegistry
    \/ \E t \in Tasks, shop \in ShopIds \cup OtherIds : GetDatabase(t, shop)
    \/ \E t \in Tasks : GetShopClient(t)
    \/ \E t \in Tasks : CacheClient(t)
    \/ \E t \in Tasks : GetDefaultDatabase(t)

SpecRouter == InitIdleStock /\ [][NextRouter]_vars

\* ------------------------------------------------------------------ registration

\* The addresses a caller can type: one mailbox in two spellings, and another.
Typed == {"ann@shop", "Ann@shop", "bob@shop"}
Passwords == {"pw1", "pw2"}

\* str.lower() on those addresses.
lower(email) == IF email = "Ann@shop" THEN "ann@shop" ELSE email

\* get_password_hash / verify_password: a hash verifies the password it was made
\* from and no other.
get_password_hash(password) == [hash_of |-> password]
verify_password(plain_password, hashed_password) == hashed_password.hash_of = plain_password

\* `self.collection.find_one({"email": email.lower()})`
get_user_by_email(email) == {u \in accounts : u.email = lower(email)}

Reply(op, email, password, result) ==
    gresp' = [op |-> op, email |-> email, password |-> password, result |-> result]

\* create_user: the duplicate check.
CreateUserCheck(w, email, password) ==
    /\ greq[w].pc = "idle"
    /\ signups < MaxSignups
    /\ signups' = signups + 1
    /\ IF get_user_by_email(email) # {}
       THEN /\ Reply("create_user", email, password, "Email already registered")
            /\ UNCHANGED greq
       ELSE /\ greq' = [greq EXCEPT ![w] = [pc |-> "insert_one", email |-> email,
                                            password |-> password]]
            /\ UNCHANGED gresp
    /\ UNCHANGED <<now, tokVars, authVars, invVars, lateVars, permVars, regVars, dbVars, catVars, accounts>>

\* create_user: insert_one of the document with the lowered email; the unique
\* index on "email" makes it raise DuplicateKeyError if another insert got there
\* first.
CreateUserInsert(w) ==
    /\ greq[w].pc = "insert_one"
    /\ LET email == lower(greq[w].email) IN
       IF \E u \in accounts : u.email = email
       THEN /\ Reply("create_user", greq[w].email, greq[w].password, "DuplicateKeyError")
            /\ UNCHANGED accounts
       ELSE /\ accounts' = accounts \cup
                   {[email |-> email,
                     hashed_password |-> get_password_hash(greq[w].password),
                     role |-> "customer"]}
            /\ Reply("create_user", greq[w].email, greq[w].password, "created")
    /\ greq' = [greq EXCEPT ![w] = IdleSignup]
    /\ UNCHANGED <<now, tokVars, authVars, invVars, lateVars, permVars, regVars, dbVars, catVars, signups>>

\* create_admin_user: the duplicate check and the role check pass, then building
\* the document reads user_data.is_active, a field AdminUserCreate does not have.
CreateAdminUser(email, password, role) ==
    /\ signups < MaxSignups
    /\ signups' = signups + 1
    /\ IF get_user_by_email(email) # {}
       THEN Reply("create_admin_user", email, password, "Email already registered")
       ELSE IF role \notin {"admin", "super_admin"}
       THEN Reply("create_admin_user", email, password, "Invalid admin role")
       ELSE Reply("create_admin_user", email, password, "AttributeError")
    /\ UNCHANGED <<now, tokVars, authVars, invVars, lateVars, permVars, regVars, dbVars, catVars, accounts, greq>>

\* authenticate_user, up to the password check (the login counters it then
\* updates are not kept in the documents here).
AuthenticateUser(email, password) ==
    /\ LET user == get_user_by_email(email) IN
       IF user = {}
       THEN Reply("authenticate_user", email, password, None)
       ELSE IF ~verify_password(password, (CHOOSE u \in user : TRUE).hashed_password)
       THEN Reply("authenticate_user", email, password, None)
       ELSE Reply("authenticate_user", email, password, "user")
    /\ UNCHANGED <<now, tokVars, authVars, invVars, lateVars, permVars, regVars, dbVars, catVars, accounts, greq, signups>>

\* The body of the response of request_password_reset for the user document found.
reset_response_revealing(user) ==
    IF user = {} THEN [status |-> 404, message |-> "User not found"] ELSE ResetAccepted

reset_response(user) == ResetAccepted

\* POST /auth/request-password-reset: get_user_by_email, and for a user found a
\* send_password_reset_email task with a fresh reset token for the address as typed.
RequestPasswordReset(email) ==
    /\ reset.calls < MaxResets
    /\ LET user == get_user_by_email(email) IN
       reset' = [calls |-> reset.calls + 1,
                 scheduled |-> IF user # {} THEN reset.scheduled + 1 ELSE reset.scheduled,
                 email |-> email,
                 response |-> reset_response(user),
                 background_tasks |->
                    IF user # {}
                    THEN <<[to |-> email, token |-> create_password_reset_token(email, now)]>>
                    ELSE <<>>]
    /\ UNCHANGED <<now, tokVars, authVars, invVars, permVars, regVars, dbVars, signVars, catVars,
                   notReset>>

NextSignup ==
    \/ \E w \in Workers, email \in Typed, password \in Passwords : CreateUserCheck(w, email, password)
    \/ \E w \in Workers : CreateUserInsert(w)
    \/ \E email \in Typed, password \in Passwords, role \in UserRole : CreateAdminUser(email, password, role)
    \/ \E email \in Typed, password \in Passwords : AuthenticateUser(email, password)
    \/ \E email \in Typed : RequestPasswordReset(email)

SpecSignup == InitIdleStock /\ [][NextSignup]_vars

\* ------------------------------------------------------------------ catalogue endpoints

\* The authenticated users a request can come from (get_current_user returns the
\* user document, with its role and its shop), and what requests can carry.
\* The authenticated users of the requests: one per role, in either shop.
Callers == {[role |-> "customer", shop |-> "tinashop"],
            [role |-> "admin", shop |-> "micocah"],
            [role |-> "super_admin", shop |-> "tinashop"]}
Skus == {"K1", "K2"}
ObjectIds == 1..MaxCatCalls
\* The ids a request names: those handed out so far and one that names nothing.
KnownIds == {id \in ObjectIds : id <= object_ids + 1}
Stocked == 1       \* stock_quantity of a product as it is created

\* The handlers of one worker process run one at a time on its event loop (they are
\* coroutines that never await inside the CRUD call); calls served by different
\* worker processes interleave between database calls.
OnWorkerLoop_threads(c) == TRUE

OnWorkerLoop(c) ==
    \A o \in Calls \ {c} : ProcOf[o] = ProcOf[c] => creq[o].pc = "idle"

\* ProductCRUD._get_collections(shop): from here on self.products_collection,
\* self.categories_collection and self.inventory_history_collection of this
\* worker's product_crud belong to `shop`.
_get_collections(c, shop) ==
    product_crud' = [product_crud EXCEPT ![ProcOf[c]] = shop]

\* The shop database behind self.*_collection for call c.
Bound(c) == product_crud[ProcOf[c]]

\* A worker takes a request into its first free slot.
Enter(c) ==
    /\ creq[c].pc = "idle"
    /\ ccalls < MaxCatCalls
    /\ OnWorkerLoop(c)
    /\ \A o \in Calls : (ProcOf[o] = ProcOf[c] /\ creq[o].pc = "idle") => ~Earlier(o, c)
    /\ ccalls' = ccalls + 1

Respond_(op, caller, shop, id, status) ==
    cresp' = [op |-> op, caller |-> caller, shop |-> shop, id |-> id, status |-> status]

Finish(c, status) ==
    /\ Respond_(creq[c].op, creq[c].caller, creq[c].shop, creq[c].id, status)
    /\ creq' = [creq EXCEPT ![c] = IdleCatalogue]

Find(collection, id, shop) == {d \in collection : d.id = id /\ d.shop = shop}
FindId(collection, id) == {d \in collection : d.id = id}

\* POST /products/: require_role(ADMIN), then product_crud.create_product with the
\* shop of the request body, up to the SKU probe.
CreateProduct(c, caller, shop, sku) ==
    /\ Enter(c)
    /\ IF role_checker(caller.role, "admin") = 403
       THEN /\ Respond_("create_product", caller, shop, 0, 403)
            /\ UNCHANGED <<creq, product_crud>>
       ELSE /\ _get_collections(c, shop)
            /\ IF \E d \in db[shop].products : d.sku = sku
               THEN /\ Respond_("create_product", caller, shop, 0, 400)
                    /\ UNCHANGED creq
               ELSE /\ creq' = [creq EXCEPT ![c] =
                                  [IdleCatalogue EXCEPT !.pc = "insert_product",
                                                        !.op = "create_product",
                                                        !.caller = caller,
                                                        !.shop = shop, !.sku = sku]]
                    /\ UNCHANGED cresp
    /\ UNCHANGED <<now, tokVars, authVars, invVars, lateVars, permVars, regVars, dbVars, signVars,
                   db, object_ids, deletes>>

\* create_product: insert_one into self.products_collection (unique index on sku).
InsertProduct(c) ==
    /\ creq[c].pc = "insert_product"
    /\ OnWorkerLoop(c)
    /\ IF \E d \in db[Bound(c)].products : d.sku = creq[c].sku
       THEN /\ Finish(c, 500)
            /\ UNCHANGED <<db, object_ids>>
       ELSE /\ object_ids' = object_ids + 1
            /\ db' = [db EXCEPT ![Bound(c)].products = @ \cup
                        {[id |-> object_ids + 1, shop |-> creq[c].shop, sku |-> creq[c].sku,
                          status |-> "active", stock_quantity |-> Stocked,
                          allow_backorder |-> FALSE, updated_at |-> now]}]
            /\ Respond_("create_product", creq[c].caller, creq[c].shop, object_ids + 1, 201)
            /\ creq' = [creq EXCEPT ![c] = IdleCatalogue]
    /\ UNCHANGED <<now, tokVars, authVars, invVars, lateVars, permVars, regVars, dbVars, signVars,
                   product_crud, ccalls, deletes>>

\* PUT /products/{product_id}: any authenticated user, the shop is the user's;
\* product_crud.update_product up to the existence probe.
UpdateProduct(c, caller, id, status) ==
    /\ Enter(c)
    /\ _get_collections(c, caller.shop)
    /\ IF Find(db[caller.shop].products, id, caller.shop) = {}
       THEN /\ Respond_("update_product", caller, caller.shop, id, 404)
            /\ UNCHANGED creq
       ELSE /\ creq' = [creq EXCEPT ![c] =
                          [IdleCatalogue EXCEPT !.pc = "update_product", !.op = "update_product",
                                                !.caller = caller, !.shop = caller.shop,
                                                !.id = id, !.status = status]]
            /\ UNCHANGED cresp
    /\ UNCHANGED <<now, tokVars, authVars, invVars, lateVars, permVars, regVars, dbVars, signVars,
                   db, object_ids, deletes>>

\* update_product: update_one({"_id": ...}, {"$set": ...}) and the read back.
UpdateProductSet(c) ==
    /\ creq[c].pc = "update_product"
    /\ OnWorkerLoop(c)
    /\ LET found == FindId(db[Bound(c)].products, creq[c].id) IN
       IF found = {}
       THEN /\ Finish(c, 404)
            /\ UNCHANGED db
       ELSE /\ db' = [db EXCEPT ![Bound(c)].products =
                        {IF d \in found
                         THEN [d EXCEPT !.status = creq[c].status, !.updated_at = now]
                         ELSE d : d \in @}]
            /\ Finish(c, 200)
    /\ UNCHANGED <<now, tokVars, authVars, invVars, lateVars, permVars, regVars, dbVars, signVars,
                   product_crud, object_ids, ccalls, deletes>>

\* ProductCRUD.delete_product(product_id, shop) on the products of `collection`:
\* $set status and updated_at on the document with that _id and shop.
delete_product_remove(collection, id, shop) ==
    {d \in collection : ~(d.id = id /\ d.shop = shop)}

delete_product(collection, id, shop) ==
    {IF d.id = id /\ d.shop = shop
     THEN [d EXCEPT !.status = "discontinued", !.updated_at = now]
     ELSE d : d \in collection}

\* DELETE /products/{product_id}: any authenticated user, the shop is the user's;
\* 404 when update_one modified nothing.
DeleteProduct(c, caller, id) ==
    /\ Enter(c)
    /\ _get_collections(c, caller.shop)
    /\ LET products_collection == db[caller.shop].products
           after == delete_product(products_collection, id, caller.shop)
       IN  /\ db' = [db EXCEPT ![caller.shop].products = after]
           /\ deletes' = IF Find(products_collection, id, caller.shop) # {}
                         THEN [deletes EXCEPT ![id] = @ + 1] ELSE deletes
           /\ Respond_("delete_product", caller, caller.shop, id,
                       IF after # products_collection THEN 200 ELSE 404)
    /\ UNCHANGED <<now, tokVars, authVars, invVars, lateVars, permVars, regVars, dbVars, signVars,
                   creq, object_ids>>

\* PATCH /products/{product_id}/inventory: any authenticated user; the argument
\* current_user["id"] raises KeyError (the user document has "_id", no "id") before
\* update_inventory is entered, and `except Exception` answers 500.
UpdateProductInventory(c, caller, id, shop) ==
    /\ Enter(c)
    /\ Respond_("update_product_inventory", caller, shop, id, 500)
    /\ UNCHANGED <<now, tokVars, authVars, invVars, lateVars, permVars, regVars, dbVars, signVars,
                   db, product_crud, creq, object_ids, deletes>>

\* ProductCRUD.update_inventory(product_id, shop, ...) called directly, up to the
\* insufficient-inventory check; 404 stands for the result None, 400 for ValueError.
UpdateInventory(c, id, shop, quantity_change) ==
    /\ Enter(c)
    /\ _get_collections(c, shop)
    /\ LET found == Find(db[shop].products, id, shop) IN
       IF found = {}
       THEN /\ Respond_("update_inventory", NoCaller, shop, id, 404)
            /\ UNCHANGED creq
       ELSE LET product == CHOOSE d \in found : TRUE
                new_quantity == product.stock_quantity + quantity_change
            IN  IF Insufficient(product, new_quantity)
                THEN /\ Respond_("update_inventory", NoCaller, shop, id, 400)
                     /\ UNCHANGED creq
                ELSE /\ creq' = [creq EXCEPT ![c] =
                                   [IdleCatalogue EXCEPT
                                       !.pc = "set_stock", !.op = "update_inventory",
                                       !.shop = shop, !.id = id,
                                       !.quantity_change = quantity_change,
                                       !.current_quantity = product.stock_quantity,
                                       !.new_quantity = new_quantity]]
                     /\ UNCHANGED cresp
    /\ UNCHANGED <<now, tokVars, authVars, invVars, lateVars, permVars, regVars, dbVars, signVars,
                   db, object_ids, deletes>>

\* update_inventory: update_one({"_id": ...}, {"$set": {"stock_quantity": ...}})
SetStock(c) ==
    /\ creq[c].pc = "set_stock"
    /\ OnWorkerLoop(c)
    /\ db' = [db EXCEPT ![Bound(c)].products =
                {IF d.id = creq[c].id
                 THEN [d EXCEPT !.stock_quantity = creq[c].new_quantity, !.updated_at = now]
                 ELSE d : d \in @}]
    /\ creq' = [creq EXCEPT ![c].pc = "insert_history"]
    /\ UNCHANGED <<now, tokVars, authVars, invVars, lateVars, permVars, regVars, dbVars, signVars,
                   product_crud, cresp, object_ids, ccalls, deletes>>

\* update_inventory: insert_one(history_doc) and the read back; `shop` on the entry
\* is history, the document itself carries only the product id.
InsertHistory(c) ==
    /\ creq[c].pc = "insert_history"
    /\ OnWorkerLoop(c)
    /\ object_ids' = object_ids + 1
    /\ db' = [db EXCEPT ![Bound(c)].inventory_history = @ \cup
                {[id |-> object_ids + 1, product_id |-> creq[c].id, shop |-> creq[c].shop,
                  quantity_before |-> creq[c].current_quantity,
                  quantity_change |-> creq[c].quantity_change,
                  quantity_after |-> creq[c].new_quantity]}]
    /\ Finish(c, IF FindId(db[Bound(c)].products, creq[c].id) = {} THEN 400 ELSE 200)
    /\ UNCHANGED <<now, tokVars, authVars, invVars, lateVars, permVars, regVars, dbVars, signVars,
                   product_crud, ccalls, deletes>>

\* POST /products/categories/: any authenticated user; product_crud.create_category
\* with the shop of the request body, up to the slug probe.
CreateCategory(c, caller, shop) ==
    /\ Enter(c)
    /\ _get_collections(c, shop)
    /\ creq' = [creq EXCEPT ![c] =
                  [IdleCatalogue EXCEPT !.pc = "insert_category", !.op = "create_category",
                                        !.caller = caller, !.shop = shop]]
    /\ UNCHANGED <<now, tokVars, authVars, invVars, lateVars, permVars, regVars, dbVars, signVars,
                   db, cresp, object_ids, deletes>>

\* create_category: insert_one into self.categories_collection and the read back.
InsertCategory(c) ==
    /\ creq[c].pc = "insert_category"
    /\ OnWorkerLoop(c)
    /\ object_ids' = object_ids + 1
    /\ db' = [db EXCEPT ![Bound(c)].categories = @ \cup
                {[id |-> object_ids + 1, shop |-> creq[c].shop, is_active |-> TRUE]}]
    /\ Respond_("create_category", creq[c].caller, creq[c].shop, object_ids + 1, 201)
    /\ creq' = [creq EXCEPT ![c] = IdleCatalogue]
    /\ UNCHANGED <<now, tokVars, authVars, invVars, lateVars, permVars, regVars, dbVars, signVars,
                   product_crud, ccalls, deletes>>

\* PUT /products/categories/{category_id}?shop=: any authenticated user;
\* product_crud.update_category up to the existence probe. The endpoint raises its
\* 404 inside the try block, where `except Exception` turns it into 500.
UpdateCategory(c, caller, id, shop) ==
    /\ Enter(c)
    /\ _get_collections(c, shop)
    /\ IF Find(db[shop].categories, id, shop) = {}
       THEN /\ Respond_("update_category", caller, shop, id, 500)
            /\ UNCHANGED creq
       ELSE /\ creq' = [creq EXCEPT ![c] =
                          [IdleCatalogue EXCEPT !.pc = "update_category", !.op = "update_category",
                                                !.caller = caller, !.shop = shop, !.id = id]]
            /\ UNCHANGED cresp
    /\ UNCHANGED <<now, tokVars, authVars, invVars, lateVars, permVars, regVars, dbVars, signVars,
                   db, object_ids, deletes>>

\* update_category: update_one({"_id": ...}, {"$set": {"is_active": False, ...}})
UpdateCategorySet(c) ==
    /\ creq[c].pc = "update_category"
    /\ OnWorkerLoop(c)
    /\ LET found == FindId(db[Bound(c)].categories, creq[c].id) IN
       IF found = {}
       THEN /\ Finish(c, 500)
            /\ UNCHANGED db
       ELSE /\ db' = [db EXCEPT ![Bound(c)].categories =
                        {IF d \in found THEN [d EXCEPT !.is_active = FALSE] ELSE d : d \in @}]
            /\ Finish(c, 200)
    /\ UNCHANGED <<now, tokVars, authVars, invVars, lateVars, permVars, regVars, dbVars, signVars,
                   product_crud, object_ids, ccalls, deletes>>

\* DELETE /products/categories/{category_id}?shop=: any authenticated user;
\* product_crud.delete_category up to its two counts (the products here list no
\* categories and the categories have no parent, so both counts are 0).
DeleteCategory(c, caller, id, shop) ==
    /\ Enter(c)
    /\ _get_collections(c, shop)
    /\ creq' = [creq EXCEPT ![c] =
                  [IdleCatalogue EXCEPT !.pc = "delete_category", !.op = "delete_category",
                                        !.caller = caller, !.shop = shop, !.id = id]]
    /\ UNCHANGED <<now, tokVars, authVars, invVars, lateVars, permVars, regVars, dbVars, signVars,
                   db, cresp, object_ids, deletes>>

\* delete_category: delete_one({"_id": ..., "shop": shop}); when nothing went the
\* endpoint's 404 is raised inside the try block and answered as 500.
DeleteCategoryOne(c) ==
    /\ creq[c].pc = "delete_category"
    /\ OnWorkerLoop(c)
    /\ LET found == Find(db[Bound(c)].categories, creq[c].id, creq[c].shop) IN
       /\ db' = [db EXCEPT ![Bound(c)].categories = @ \ found]
       /\ Finish(c, IF found = {} THEN 500 ELSE 200)
    /\ UNCHANGED <<now, tokVars, authVars, invVars, lateVars, permVars, regVars, dbVars, signVars,
                   product_crud, object_ids, ccalls, deletes>>

\* datetime.utcnow() moves on.
TickCatalogue ==
    /\ now < MaxStamp
    /\ now' = now + 1
    /\ UNCHANGED <<tokVars, authVars, invVars, extVars>>

NextCatalogue ==
    \/ \E c \in Calls, caller \in Callers, shop \in ShopIds, sku \in Skus :
           CreateProduct(c, caller, shop, sku)
    \/ \E c \in Calls : InsertProduct(c)
    \/ \E c \in Calls, caller \in Callers, id \in KnownIds, status \in {"active", "inactive"} :
           UpdateProduct(c, caller, id, status)
    \/ \E c \in Calls : UpdateProductSet(c)
    \/ \E c \in Calls, caller \in Callers, id \in KnownIds : DeleteProduct(c, caller, id)
    \/ \E c \in Calls, caller \in Callers, id \in KnownIds, shop \in ShopIds :
           UpdateProductInventory(c, caller, id, shop)
    \/ \E c \in Calls, id \in KnownIds, shop \in ShopIds, quantity_change \in {0 - 1, 1} :
           UpdateInventory(c, id, shop, quantity_change)
    \/ \E c \in Calls : SetStock(c)
    \/ \E c \in Calls : InsertHistory(c)
    \/ \E c \in Calls, caller \in Callers, shop \in ShopIds : CreateCategory(c, caller, shop)
    \/ \E c \in Calls : InsertCategory(c)
    \/ \E c \in Calls, caller \in Callers, id \in KnownIds, shop \in ShopIds :
           UpdateCategory(c, caller, id, shop)
    \/ \E c \in Calls : UpdateCategorySet(c)
    \/ \E c \in Calls, caller \in Callers, id \in KnownIds, shop \in ShopIds :
           DeleteCategory(c, caller, id, shop)
    \/ \E c \in Calls : DeleteCategoryOne(c)
    \/ TickCatalogue

SpecCatalogue == InitIdleStock /\ [][NextCatalogue]_vars

\* ------------------------------------------------------------------ slugs and SKUs

\* Text is a sequence of characters. The names a request can carry:
\* "Red Shoe", "red  shoe!", "-Red-Shoe-", "Red Shoe 1" and "!?".
RedShoe  == <<"R", "e", "d", " ", "S", "h", "o", "e">>
Names ==
    { RedShoe,
      <<"r", "e", "d", " ", " ", "s", "h", "o", "e", "!">>,
      <<"-", "R", "e", "d", "-", "S", "h", "o", "e", "-">>,
      <<"R", "e", "d", " ", "S", "h", "o", "e", " ", "1">>,
      <<"!", "?">> }

\* The SKUs a request can carry, as typed.
TypedSkus == {"abc-1", "ABC-1", "XY_2"}

\* str.upper() on those SKUs (ProductCreate.validate_sku returns v.upper()).
upper(sku) == IF sku = "abc-1" THEN "ABC-1" ELSE sku

\* str.lower() on a character.
lower_char(c) ==
    CASE c = "R" -> "r"
      [] c = "S" -> "s"
      [] OTHER -> c

\* The character classes of the regular expressions: \w, \s, and the hyphen.
Word == {"r", "e", "d", "s", "h", "o", "R", "S", "1", "2", "3", "4", "_"}
Space == {" "}
Hyphen == "-"

\* re.sub(r'[-\s]+', '-', text): every run of hyphens and spaces becomes one hyphen.
RECURSIVE collapse(_)
collapse(text) ==
    IF text = <<>> THEN <<>>
    ELSE IF Head(text) \in Space \cup {Hyphen}
         THEN IF Len(text) > 1 /\ text[2] \in Space \cup {Hyphen}
              THEN collapse(Tail(text))
              ELSE <<Hyphen>> \o collapse(Tail(text))
         ELSE <<Head(text)>> \o collapse(Tail(text))

\* str.strip('-')
RECURSIVE strip(_)
strip(text) ==
    IF text = <<>> THEN <<>>
    ELSE IF Head(text) = Hyphen THEN strip(Tail(text))
    ELSE IF text[Len(text)] = Hyphen THEN strip(SubSeq(text, 1, Len(text) - 1))
    ELSE text

\* base_slug = re.sub(r'[^\w\s-]', '', name.lower());
\* base_slug = re.sub(r'[-\s]+', '-', base_slug).strip('-')
base_slug(name) ==
    LET lowered == [i \in 1..Len(name) |-> lower_char(name[i])]
        kept    == SelectSeq(lowered, LAMBDA c : c \in Word \cup Space \cup {Hyphen})
    IN  strip(collapse(kept))

\* str(counter) for the counters the loop can reach here.
str(counter) == <<CASE counter = 1 -> "1" [] counter = 2 -> "2" [] counter = 3 -> "3"
                    [] OTHER -> "4">>

\* f"{base_slug}-{counter}"
suffixed(base, counter) == base \o <<Hyphen>> \o str(counter)

\* The slugs of the documents find_one({"slug": slug, "_id": {"$ne": exclude_id}})
\* can match; exclude_id is 0 when none is given.
slugs_but(collection, exclude_id) == {d.slug : d \in {e \in collection : e.id # exclude_id}}

\* The while loop of _generate_slug from the given slug and counter on.
RECURSIVE probe(_, _, _, _)
probe(base, slug, counter, taken) ==
    IF slug \notin taken THEN slug
    ELSE probe(base, suffixed(base, counter), counter + 1, taken)

\* ProductCRUD._generate_slug(name, collection, exclude_id)
_generate_slug_unprobed(name, collection, exclude_id) == base_slug(name)

_generate_slug(name, collection, exclude_id) ==
    probe(base_slug(name), base_slug(name), 1, slugs_but(collection, exclude_id))

\* The unique indexes on "sku" and on "slug" (_ensure_indexes): may `doc` be
\* written next to the other documents of the collection?
index_allows_any(collection, doc) == TRUE

index_allows(collection, doc) ==
    \A d \in collection : d.id # doc.id => (d.sku # doc.sku /\ d.slug # doc.slug)

Listed(op, status, id, sku, name, slug) ==
    lresp' = [op |-> op, status |-> status, id |-> id, sku |-> sku, name |-> name,
              slug |-> slug, call |-> lresp.call + 1]

\* create_product: validate_sku, the SKU probe (ValueError, answered 400) and
\* _generate_slug.
CreateNamed(w, typed_sku, name) ==
    /\ lreq[w].pc = "idle"
    /\ lresp.call + Cardinality({o \in Workers : lreq[o].pc # "idle"}) < MaxNamed
    /\ LET sku == upper(typed_sku) IN
       IF \E d \in listing : d.sku = sku
       THEN /\ Listed("create_product", 400, 0, sku, name, <<>>)
            /\ UNCHANGED lreq
       ELSE /\ lreq' = [lreq EXCEPT ![w] =
                          [pc |-> "insert_one", id |-> 0, sku |-> sku, name |-> name,
                           slug |-> _generate_slug(name, listing, 0)]]
            /\ UNCHANGED lresp
    /\ UNCHANGED <<now, tokVars, authVars, invVars, permVars, regVars, dbVars, signVars, catVars,
                   notSlug, listing>>

\* create_product: insert_one; DuplicateKeyError from either unique index leaves
\* the endpoint through `except Exception` as 500.
InsertNamed(w) ==
    /\ lreq[w].pc = "insert_one"
    /\ LET doc == [id |-> Cardinality(listing) + 1, sku |-> lreq[w].sku,
                   name |-> lreq[w].name, slug |-> lreq[w].slug]
       IN  IF index_allows(listing, doc)
           THEN /\ listing' = listing \cup {doc}
                /\ Listed("create_product", 201, doc.id, doc.sku, doc.name, doc.slug)
           ELSE /\ UNCHANGED listing
                /\ Listed("create_product", 500, 0, doc.sku, doc.name, doc.slug)
    /\ lreq' = [lreq EXCEPT ![w] = IdleNamed]
    /\ UNCHANGED <<now, tokVars, authVars, invVars, permVars, regVars, dbVars, signVars, catVars,
                   notSlug>>

\* update_product with a name in the body: the existence probe and _generate_slug
\* with exclude_id.
RenameProduct(w, id, name) ==
    /\ lreq[w].pc = "idle"
    /\ lresp.call + Cardinality({o \in Workers : lreq[o].pc # "idle"}) < MaxNamed
    /\ IF ~\E d \in listing : d.id = id
       THEN /\ Listed("update_product", 404, id, None, name, <<>>)
            /\ UNCHANGED lreq
       ELSE /\ lreq' = [lreq EXCEPT ![w] =
                          [pc |-> "update_one", id |-> id, sku |-> None, name |-> name,
                           slug |-> _generate_slug(name, listing, id)]]
            /\ UNCHANGED lresp
    /\ UNCHANGED <<now, tokVars, authVars, invVars, permVars, regVars, dbVars, signVars, catVars,
                   notSlug, listing>>

\* update_product: update_one({"_id": ...}, {"$set": {"name", "slug", ...}});
\* DuplicateKeyError is swallowed by `except Exception: return None`, answered 404.
RenameSet(w) ==
    /\ lreq[w].pc = "update_one"
    /\ LET old == CHOOSE d \in listing : d.id = lreq[w].id
           doc == [old EXCEPT !.name = lreq[w].name, !.slug = lreq[w].slug]
       IN  IF index_allows(listing, doc)
           THEN /\ listing' = (listing \ {old}) \cup {doc}
                /\ Listed("update_product", 200, doc.id, doc.sku, doc.name, doc.slug)
           ELSE /\ UNCHANGED listing
                /\ Listed("update_product", 404, doc.id, doc.sku, doc.name, doc.slug)
    /\ lreq' = [lreq EXCEPT ![w] = IdleNamed]
    /\ UNCHANGED <<now, tokVars, authVars, invVars, permVars, regVars, dbVars, signVars, catVars,
                   notSlug>>

NextSlug ==
    \/ \E w \in Workers, typed_sku \in TypedSkus, name \in Names : CreateNamed(w, typed_sku, name)
    \/ \E w \in Workers : InsertNamed(w)
    \/ \E w \in Workers, id \in 1..MaxNamed, name \in Names : RenameProduct(w, id, name)
    \/ \E w \in Workers : RenameSet(w)

SpecSlug == InitIdleStock /\ [][NextSlug]_vars

\* ------------------------------------------------------------------ category references

\* ObjectIds are handed out in order of insertion; a request can name the ids
\* handed out so far.
RefIds == 1..shelf.inserted

RefRoom == dresp.call + Cardinality({w \in Workers : dreq[w].pc # "idle"}) < MaxRefCalls

RefAnswer(op, id, status) ==
    dresp' = [op |-> op, id |-> id, status |-> status, call |-> dresp.call + 1]

RefCall(op, id) == RefRoom /\ RefAnswer(op, id, 200)

\* create_category: insert_one of a category with the parent_id of the request
\* (no check that the parent exists).
AddCategory(parent_id) ==
    /\ RefCall("create_category", shelf.inserted + 1)
    /\ shelf' = [shelf EXCEPT !.inserted = @ + 1,
                              !.categories = @ \cup {[id |-> shelf.inserted + 1,
                                                       parent_id |-> parent_id]}]
    /\ UNCHANGED <<now, tokVars, authVars, invVars, permVars, regVars, dbVars, signVars, catVars,
                   notRef, dreq>>

\* update_category with parent_id in the body: update_one $set of the values
\* that are not None, so a parent_id of None leaves the parent as it is.
SetParent(id, parent_id) ==
    /\ RefCall("update_category", id)
    /\ \E d \in shelf.categories : d.id = id
    /\ shelf' = [shelf EXCEPT !.categories =
                    {IF d.id = id /\ parent_id # NoParent
                     THEN [d EXCEPT !.parent_id = parent_id] ELSE d : d \in @}]
    /\ UNCHANGED <<now, tokVars, authVars, invVars, permVars, regVars, dbVars, signVars, catVars,
                   notRef, dreq>>

\* create_product: insert_one of a product with the category_ids of the request
\* (no check that the categories exist).
AddProduct(category_ids) ==
    /\ RefCall("create_product", shelf.inserted + 1)
    /\ shelf' = [shelf EXCEPT !.inserted = @ + 1,
                              !.products = @ \cup {[id |-> shelf.inserted + 1,
                                                     category_ids |-> category_ids]}]
    /\ UNCHANGED <<now, tokVars, authVars, invVars, permVars, regVars, dbVars, signVars, catVars,
                   notRef, dreq>>

\* update_product with category_ids in the body: update_one $set.
SetCategories(id, category_ids) ==
    /\ RefCall("update_product", id)
    /\ \E d \in shelf.products : d.id = id
    /\ shelf' = [shelf EXCEPT !.products =
                    {IF d.id = id THEN [d EXCEPT !.category_ids = category_ids] ELSE d : d \in @}]
    /\ UNCHANGED <<now, tokVars, authVars, invVars, permVars, regVars, dbVars, signVars, catVars,
                   notRef, dreq>>

Deleted(w, status) ==
    /\ RefAnswer("delete_category", dreq[w].id, status)
    /\ dreq' = [dreq EXCEPT ![w] = IdleDelete]

\* delete_category: count_documents({"category_ids": category_id, "shop": shop});
\* ValueError("Cannot delete category with products") is answered 400.
DeleteCountProducts(w, id) ==
    /\ dreq[w].pc = "idle"
    /\ RefRoom
    /\ IF \E d \in shelf.products : id \in d.category_ids
       THEN /\ RefAnswer("delete_category", id, 400)
            /\ UNCHANGED dreq
       ELSE /\ dreq' = [dreq EXCEPT ![w] = [pc |-> "count_children", id |-> id]]
            /\ UNCHANGED dresp
    /\ UNCHANGED <<now, tokVars, authVars, invVars, permVars, regVars, dbVars, signVars, catVars,
                   notRef, shelf>>

\* delete_category: count_documents({"parent_id": category_id, "shop": shop});
\* ValueError("Cannot delete category with subcategories") is answered 400.
DeleteCountChildren(w) ==
    /\ dreq[w].pc = "count_children"
    /\ IF \E d \in shelf.categories : d.parent_id = dreq[w].id
       THEN Deleted(w, 400)
       ELSE /\ dreq' = [dreq EXCEPT ![w].pc = "delete_one"]
            /\ UNCHANGED dresp
    /\ UNCHANGED <<now, tokVars, authVars, invVars, permVars, regVars, dbVars, signVars, catVars,
                   notRef, shelf>>

\* delete_category: delete_one({"_id": ..., "shop": shop}); deleted_count 0 is
\* answered 500 (the 404 is raised inside the endpoint's try block).
delete_one(collections, id) == {d \in collections.categories : d.id # id}

DeleteOne(w) ==
    /\ dreq[w].pc = "delete_one"
    /\ shelf' = [shelf EXCEPT !.categories = delete_one(shelf, dreq[w].id)]
    /\ Deleted(w, IF shelf'.categories # shelf.categories THEN 200 ELSE 500)
    /\ UNCHANGED <<now, tokVars, authVars, invVars, permVars, regVars, dbVars, signVars, catVars,
                   notRef>>

NextRefs ==
    \/ \E parent_id \in RefIds \cup {NoParent} : AddCategory(parent_id)
    \/ \E id \in RefIds, parent_id \in RefIds \cup {NoParent} : SetParent(id, parent_id)
    \/ \E category_ids \in SUBSET RefIds : AddProduct(category_ids)
    \/ \E id \in RefIds, category_ids \in SUBSET RefIds : SetCategories(id, category_ids)
    \/ \E w \in Workers, id \in RefIds : DeleteCountProducts(w, id)
    \/ \E w \in Workers : DeleteCountChildren(w)
    \/ \E w \in Workers : DeleteOne(w)

SpecRefs == InitIdleStock /\ [][NextRefs]_vars

\* ------------------------------------------------------------------ product fields and stock
\*
\* One product of one shop database: what create_product, update_product and
\* update_inventory do to its price, compare_price, stock_quantity and
\* allow_backorder, and to the inventory_history collection.

TypedPrices    == 0..2                  \* price in a request body
TypedCompare   == {NoCompare} \cup 1..2  \* compare_price in a request body
TypedStock     == (0 - 1)..1            \* stock_quantity in a request body
TypedChange    == {0 - 1, 1}            \* quantity_change of an update_inventory body
UpdateFields   == {"price", "compare_price", "stock_quantity", "allow_backorder"}

\* The values a field of a ProductUpdate body can carry: those typed when the
\* field is set, the default of the schema (None) when it is not.
Body(field, fields, typed, unset) == IF field \in fields THEN typed ELSE {unset}

EditRoom == eresp.call + Cardinality({w \in Workers : ereq[w].pc # "idle"}) < MaxEdits

EditAnswer(op, status) == eresp' = [op |-> op, status |-> status, call |-> eresp.call + 1]

\* ProductCreate: price gt=0, compare_price gt=0 when given, stock_quantity ge=0,
\* and validate_compare_price, which rejects compare_price <= price.
ProductCreate(price, compare_price, stock_quantity) ==
    /\ price > 0
    /\ compare_price # NoCompare => compare_price > 0 /\ ~(compare_price <= price)
    /\ stock_quantity >= 0

\* ProductUpdate: the same Field constraints on the fields that are set, and no
\* validator that compares two fields.
ProductUpdate(fields, price, compare_price, stock_quantity) ==
    /\ "price" \in fields => price > 0
    /\ ("compare_price" \in fields /\ compare_price # NoCompare) => compare_price > 0
    /\ "stock_quantity" \in fields => stock_quantity >= 0

\* update_product: update_dict holds the fields of the body that are set and not None.
update_dict(fields, compare_price) ==
    IF compare_price = NoCompare THEN fields \ {"compare_price"} ELSE fields

\* create_product: the body is validated (422), the document is inserted with the
\* fields of the body.
CreateGoods(price, compare_price, stock_quantity, allow_backorder) ==
    /\ EditRoom
    /\ Cardinality(goods) < MaxGoods
    /\ IF ProductCreate(price, compare_price, stock_quantity)
       THEN /\ goods' = goods \cup {[id |-> Cardinality(goods) + 1,
                                      price |-> price,
                                      compare_price |-> compare_price,
                                      stock_quantity |-> stock_quantity,
                                      allow_backorder |-> allow_backorder]}
            /\ EditAnswer("create_product", 200)
       ELSE /\ EditAnswer("create_product", 422)
            /\ UNCHANGED goods
    /\ UNCHANGED <<now, tokVars, authVars, invVars, permVars, regVars, dbVars, signVars, catVars,
                   notEdit, ledger, ereq>>

\* update_product: the body is validated (422); find_one by id, None is answered
\* 404; update_one $set of update_dict.
UpdateGoods(id, fields, price, compare_price, stock_quantity, allow_backorder) ==
    /\ EditRoom
    /\ IF ~ProductUpdate(fields, price, compare_price, stock_quantity)
       THEN /\ EditAnswer("update_product", 422)
            /\ UNCHANGED goods
       ELSE IF ~\E d \in goods : d.id = id
       THEN /\ EditAnswer("update_product", 404)
            /\ UNCHANGED goods
       ELSE /\ goods' =
                 {IF d.id # id THEN d ELSE
                     [d EXCEPT
                        !.price = IF "price" \in update_dict(fields, compare_price)
                                  THEN price ELSE @,
                        !.compare_price = IF "compare_price" \in update_dict(fields, compare_price)
                                          THEN compare_price ELSE @,
                        !.stock_quantity = IF "stock_quantity" \in update_dict(fields, compare_price)
                                           THEN stock_quantity ELSE @,
                        !.allow_backorder = IF "allow_backorder" \in update_dict(fields, compare_price)
                                            THEN allow_backorder ELSE @]
                  : d \in goods}
            /\ EditAnswer("update_product", 200)
    /\ UNCHANGED <<now, tokVars, authVars, invVars, permVars, regVars, dbVars, signVars, catVars,
                   notEdit, ledger, ereq>>

\* update_inventory: find_one by id (None is answered 404); new_quantity < 0
\* without allow_backorder raises ValueError("Insufficient inventory"), answered 400.
InventoryFindOne(w, id, quantity_change) ==
    /\ ereq[w].pc = "idle"
    /\ EditRoom
    /\ IF ~\E d \in goods : d.id = id
       THEN /\ EditAnswer("update_inventory", 404)
            /\ UNCHANGED ereq
       ELSE \E d \in goods :
            /\ d.id = id
            /\ IF d.stock_quantity + quantity_change < 0 /\ ~d.allow_backorder
               THEN /\ EditAnswer("update_inventory", 400)
                    /\ UNCHANGED ereq
               ELSE /\ ereq' = [ereq EXCEPT ![w] =
                                  [pc |-> "update_one",
                                   product_id |-> id,
                                   current_quantity |-> d.stock_quantity,
                                   quantity_change |-> quantity_change,
                                   new_quantity |-> d.stock_quantity + quantity_change]]
                    /\ UNCHANGED eresp
    /\ UNCHANGED <<now, tokVars, authVars, invVars, permVars, regVars, dbVars, signVars, catVars,
                   notEdit, goods, ledger>>

\* update_inventory: update_one $set stock_quantity = new_quantity.
InventoryUpdateOne(w) ==
    /\ ereq[w].pc = "update_one"
    /\ goods' = {IF d.id = ereq[w].product_id
                 THEN [d EXCEPT !.stock_quantity = ereq[w].new_quantity] ELSE d : d \in goods}
    /\ ereq' = [ereq EXCEPT ![w].pc = "insert_one"]
    /\ UNCHANGED <<now, tokVars, authVars, invVars, permVars, regVars, dbVars, signVars, catVars,
                   notEdit, ledger, eresp>>

history_doc(locals) ==
    [product_id |-> locals.product_id,
     quantity_before |-> locals.current_quantity,
     quantity_change |-> locals.quantity_change,
     quantity_after |-> locals.new_quantity]

\* update_inventory: insert_one of history_doc into inventory_history.
InventoryInsertOne(w) ==
    /\ ereq[w].pc = "insert_one"
    /\ ledger' = Append(ledger, history_doc(ereq[w]))
    /\ ereq' = [ereq EXCEPT ![w] = IdleEdit]
    /\ EditAnswer("update_inventory", 200)
    /\ UNCHANGED <<now, tokVars, authVars, invVars, permVars, regVars, dbVars, signVars, catVars,
                   notEdit, goods>>

\* update_inventory: insert_one raises (the connection to the database is lost
\* after update_one); `except Exception as e: raise ValueError(str(e))` is answered 400.
InventoryInsertFails(w) ==
    /\ ereq[w].pc = "insert_one"
    /\ ereq' = [ereq EXCEPT ![w] = IdleEdit]
    /\ EditAnswer("update_inventory", 400)
    /\ UNCHANGED <<now, tokVars, authVars, invVars, permVars, regVars, dbVars, signVars, catVars,
                   notEdit, goods, ledger>>

NextEdit ==
    \/ \E price \in TypedPrices, compare_price \in TypedCompare, stock_quantity \in TypedStock,
          allow_backorder \in BOOLEAN :
          CreateGoods(price, compare_price, stock_quantity, allow_backorder)
    \/ \E id \in 1..MaxGoods, fields \in SUBSET UpdateFields :
          \E price \in Body("price", fields, TypedPrices, 0),
             compare_price \in Body("compare_price", fields, TypedCompare, NoCompare),
             stock_quantity \in Body("stock_quantity", fields, TypedStock, 0),
             allow_backorder \in Body("allow_backorder", fields, BOOLEAN, FALSE) :
             UpdateGoods(id, fields, price, compare_price, stock_quantity, allow_backorder)
    \/ \E w \in Workers, id \in 1..MaxGoods, quantity_change \in TypedChange :
          InventoryFindOne(w, id, quantity_change)
    \/ \E w \in Workers : InventoryUpdateOne(w)
    \/ \E w \in Workers : InventoryInsertOne(w)
    \/ \E w \in Workers : InventoryInsertFails(w)

SpecEdit == InitIdleStock /\ [][NextEdit]_vars

\* ------------------------------------------------------------------ registry construction
\*
\* `shop_manager = ShopManager()` at import: __init__ sets _shops = {} and calls
\* _load_shops, which reads shops.json, else SHOPS_CONFIG, else the built-in
\* default shops.  An exception that leaves _load_shops ends the construction.

\* The keys ShopConfig.from_dict reads from an entry, and the keys of the entries
\* of default_shops in _create_default_shops.
from_dict_keys ==
    {"name", "mongodb_url", "admin_email", "admin_password", "frontend_url", "domain",
     "description", "theme", "features", "settings", "contact", "social"}
default_keys ==
    {"name", "mongodb_url", "admin_email", "admin_password", "frontend_url", "domain",
     "description"}
default_shops ==
    <<ShopEntry("tinashop", from_dict_keys \subseteq default_keys),
      ShopEntry("micocah", from_dict_keys \subseteq default_keys)>>

\* A JSON object of at most MaxShops entries with distinct shop ids.
ShopLists ==
    {l \in UNION {[1..n -> {ShopEntry(id, c) : id \in ShopIds, c \in BOOLEAN}] : n \in 0..MaxShops} :
        \A i, j \in 1..Len(l) : l[i].id = l[j].id => i = j}

\* What a starting process can find as shops.json and as SHOPS_CONFIG: nothing,
\* text that is not JSON, or a JSON object.
Sources ==
    {NoSource, [exists |-> TRUE, json |-> FALSE, shops |-> <<>>]}
        \cup {[exists |-> TRUE, json |-> TRUE, shops |-> l] : l \in ShopLists}

BootUnchanged ==
    UNCHANGED <<now, tokVars, authVars, invVars, permVars, regVars, dbVars, signVars, catVars,
                notBoot>>

\* _load_shops has ended: it returned ("loaded") or raised.
Booted(result) == boot' = [boot EXCEPT !.pc = "idle", !.shops = <<>>, !.result = result]

\* The loop `self._shops[shop_id] = ShopConfig.from_dict(shop_id, shop_data)`
\* over the entries left has stored one more shop.
from_dict_stored == [boot EXCEPT !._shops = @ \cup {Head(boot.shops).id}, !.shops = Tail(@)]

\* ShopManager.__init__: self._shops = {}, then _load_shops.
Construct(config_file, SHOPS_CONFIG) ==
    /\ boot.pc = "idle"
    /\ boot.boots < MaxBoots
    /\ boot' = [pc |-> "_load_shops", config_file |-> config_file, SHOPS_CONFIG |-> SHOPS_CONFIG,
                shops |-> <<>>, _shops |-> {}, source |-> None, result |-> None,
                boots |-> boot.boots + 1]
    /\ BootUnchanged

\* config_path.exists(): json.load; JSONDecodeError is raised as ValueError,
\* else self._shops = {} and the loop over the entries starts.
LoadFile ==
    /\ boot.pc = "_load_shops"
    /\ boot.config_file.exists
    /\ IF ~boot.config_file.json
       THEN Booted("ValueError")
       ELSE boot' = [boot EXCEPT !.pc = "file", !.source = "file", !._shops = {},
                                 !.shops = boot.config_file.shops]
    /\ BootUnchanged

\* The loop over the entries of the file; an exception of from_dict is raised
\* as RuntimeError; after the last entry _load_shops returns.
FillFile ==
    /\ boot.pc = "file"
    /\ IF boot.shops = <<>> THEN Booted("loaded")
       ELSE IF Head(boot.shops).complete THEN boot' = from_dict_stored
       ELSE Booted("RuntimeError")
    /\ BootUnchanged

\* No file: os.getenv('SHOPS_CONFIG'); unset or empty goes on to the default
\* shops, so does text that is not JSON (the JSONDecodeError is printed).
LoadEnv ==
    /\ boot.pc = "_load_shops"
    /\ ~boot.config_file.exists
    /\ IF boot.SHOPS_CONFIG.exists /\ boot.SHOPS_CONFIG.json
       THEN boot' = [boot EXCEPT !.pc = "env", !.source = "env", !._shops = {},
                                 !.shops = boot.SHOPS_CONFIG.shops]
       ELSE boot' = [boot EXCEPT !.pc = "_create_default_shops"]
    /\ BootUnchanged

\* The loop over the entries of SHOPS_CONFIG; an exception of from_dict is
\* printed and _load_shops goes on to the default shops.
FillEnv ==
    /\ boot.pc = "env"
    /\ IF boot.shops = <<>> THEN Booted("loaded")
       ELSE IF Head(boot.shops).complete THEN boot' = from_dict_stored
       ELSE boot' = [boot EXCEPT !.pc = "_create_default_shops", !.shops = <<>>]
    /\ BootUnchanged

\* _create_default_shops: self._shops = {} and the loop over default_shops starts.
CreateDefaultShops ==
    /\ boot.pc = "_create_default_shops"
    /\ boot' = [boot EXCEPT !.pc = "default", !.source = "default", !._shops = {},
                             !.shops = default_shops]
    /\ BootUnchanged

\* The loop over default_shops; nothing catches an exception of from_dict here
\* (KeyError for a key the entry lacks).
FillDefault ==
    /\ boot.pc = "default"
    /\ IF boot.shops = <<>> THEN Booted("loaded")
       ELSE IF Head(boot.shops).complete THEN boot' = from_dict_stored
       ELSE Booted("KeyError")
    /\ BootUnchanged

NextLoad ==
    \/ \E config_file \in Sources, SHOPS_CONFIG \in Sources : Construct(config_file, SHOPS_CONFIG)
    \/ LoadFile
    \/ FillFile
    \/ LoadEnv
    \/ FillEnv
    \/ CreateDefaultShops
    \/ FillDefault

SpecLoad == InitIdleStock /\ [][NextLoad]_vars

\* ------------------------------------------------------------------ claims: permission model

\* C17: an operation gated by permission product:write answers 403 Forbidden to
\* every caller with role customer and admits every caller with role admin; a caller
\* with role super_admin is admitted by every permission-gated operation, whichever
\* of the named permissions gates it.
C17_PermissionGate ==
    /\ (pcheck.permission = "product:write" /\ pcheck.role = "customer") => pcheck.status = 403
    /\ (pcheck.permission = "product:write" /\ pcheck.role = "admin") => pcheck.status = 200
    /\ pcheck.role = "super_admin" => pcheck.status = 200

\* C17 witness: a customer has just been refused by the product:write gate.
C17_Witness ==
    /\ pcheck.role = "customer"
    /\ pcheck.permission = "product:write"
    /\ pcheck.status = 403

Admits(check) == check.status = 200

\* C18: the rank check "required_role or higher" admits a role exactly when that
\* role's permission set contains the required role's permission set; the permission
\* sets are nested super_admin >= admin >= customer, and super_admin passes every
\* rank check.
C18_RankMatchesPermissions ==
    /\ rcheck.role # None =>
           (Admits(rcheck) <=>
                get_user_permissions(rcheck.required_role) \subseteq get_user_permissions(rcheck.role))
    /\ rcheck.role = "super_admin" => Admits(rcheck)
    /\ get_user_permissions("customer") \subseteq get_user_permissions("admin")
    /\ get_user_permissions("admin") \subseteq get_user_permissions("super_admin")

\* C18 witness: an admin has just been refused by the rank check for super_admin,
\* whose permission set the admin's does not contain.
C18_Witness ==
    /\ rcheck.role = "admin"
    /\ rcheck.required_role = "super_admin"
    /\ rcheck.status = 403
    /\ ~(get_user_permissions("super_admin") \subseteq get_user_permissions("admin"))

\* ------------------------------------------------------------------ claims: registry and router

C14_UnknownShopRejected ==
    [][ \A t \in Tasks :
          rresp'[t] # rresp[t] =>
              IF ~rresp'[t].valid
              THEN /\ rresp'[t].error = "Unknown shop"
                   /\ rresp'[t].database = NoDatabase
                   /\ UNCHANGED <<_shop_clients, _shop_databases, created>>
              ELSE /\ rresp'[t].error = None
                   /\ rresp'[t].database = _shop_databases'[rresp'[t].shop]
                   /\ created'[rresp'[t].shop] = [clients |-> 1, databases |-> 1] ]_vars

\* C15: during and after every load of the registry, one that fails on a malformed
\* source included, each reader gets either the complete shop set of before the load
\* or the complete shop set of the source being loaded, never an empty or partly
\* filled one.
C15_RegistryNeverPartial ==
    seen.shops = seen.previous \/ seen.shops = seen.new

\* ------------------------------------------------------------------ claims: registration

Registered(email) == \E u \in accounts : u.email = lower(email)

\* C16: once a create_user has succeeded for an email, every further create_user or
\* create_admin_user with that email in any letter case, whether it runs after or
\* alongside, fails with "Email already registered" and leaves the users collection
\* as it was, so there is at most one user per lowered email; and authenticate_user
\* with the registered email, in any letter case, and its password succeeds.
C16_DuplicateEmailRejected ==
    [][ /\ \A u, v \in accounts' : u.email = v.email => u = v
        /\ (gresp' # gresp /\ gresp'.op \in {"create_user", "create_admin_user"}
              /\ Registered(gresp'.email)) =>
               /\ gresp'.result = "Email already registered"
               /\ accounts' = accounts
        /\ (gresp'.op = "authenticate_user" /\ Registered(gresp'.email)
              /\ \E u \in accounts :
                     /\ u.email = lower(gresp'.email)
                     /\ verify_password(gresp'.password, u.hashed_password)) =>
               gresp'.result = "user" ]_vars

\* ------------------------------------------------------------------ claims: catalogue

\* C11: concurrent catalogue requests for different tenants are independent. Every
\* call in flight works on the collections of the shop it was invoked for, and every
\* product, category and inventory-history record lies in the database of the shop
\* named in the request that wrote it.
C11_TenantPartition ==
    /\ \A c \in Calls : creq[c].pc # "idle" => Bound(c) = creq[c].shop
    /\ \A t \in ShopIds :
          /\ \A d \in db[t].products : d.shop = t
          /\ \A d \in db[t].categories : d.shop = t
          /\ \A h \in db[t].inventory_history : h.shop = t

\* A record has been written while calls for different shops are in flight.
C11_Witness ==
    /\ \E t \in ShopIds : db[t].products \cup db[t].categories # {}
    /\ \E c, o \in Calls : /\ creq[c].pc # "idle"
                           /\ creq[o].pc # "idle"
                           /\ creq[c].shop # creq[o].shop

\* C12: a mutating catalogue request of a non-super_admin user that names a shop
\* other than the user's own is rejected (it is never answered with success).
C12_TenantCrossChecked ==
    (/\ cresp.caller # NoCaller
     /\ cresp.caller.role # "super_admin"
     /\ cresp.shop # cresp.caller.shop) => cresp.status \notin {200, 201}

\* The endpoints C19 names.
AdminOperations ==
    {"delete_product", "update_product_inventory", "create_category", "update_category",
     "delete_category"}

\* C19: product delete, inventory update and category create/update/delete are
\* answered with success only for admin and super_admin; a customer gets 403.
C19_AdminOnly ==
    cresp.op \in AdminOperations =>
        /\ cresp.status \in {200, 201} => cresp.caller.role \in {"admin", "super_admin"}
        /\ cresp.caller.role = "customer" => cresp.status = 403

C21_DiscontinuedIsTerminal ==
    [][\A t \in ShopIds : \A d \in db[t].products :
          \E e \in db'[t].products :
             /\ e.id = d.id
             /\ d.status = "discontinued" => e.status = "discontinued"]_vars

\* ------------------------------------------------------------------ claims: password reset

\* C25: a password-reset request is non-revealing. Every request, for a registered
\* address or not, gets the same response, which reports success; a reset email is
\* scheduled by the request if and only if a user with that address exists.
C25_ResetNonRevealing ==
    [][reset'.calls # reset.calls =>
          /\ reset'.response = ResetAccepted
          /\ (reset'.background_tasks # <<>>
                 <=> \E u \in accounts : u.email = lower(reset'.email))
          /\ \A i \in 1..Len(reset'.background_tasks) :
                reset'.background_tasks[i].to = reset'.email]_vars

\* Two requests have been answered, one for an address that was registered and
\* one for an address that was not.
C25_Witness ==
    /\ reset.calls = 2
    /\ reset.scheduled = 1
    /\ reset.response = ResetAccepted

\* ------------------------------------------------------------------ claims: refresh rotation

\* C29: a refresh token is redeemable at most once. Among the refresh requests that
\* present the same token at most one is answered 200; in particular a refresh
\* request is never answered 200 for the token whose redemption was the response
\* just before it.
C29_RefreshTokenSingleUse ==
    [][\A w \in Workers :
          (/\ req[w].pc = "refresh_store"
           /\ req'[w].pc = "idle"
           /\ resp'.op = "refresh"
           /\ resp'.status = 200) =>
              ~(/\ resp.op = "refresh"
                /\ resp.status = 200
                /\ resp.presented = req[w].token)]_vars

\* ------------------------------------------------------------------ claims: slugs and SKUs

RedShoeSlug == <<"r", "e", "d", "-", "s", "h", "o", "e">>

\* The slug the rule of C22 gives `name` among the slugs `taken`.
SmallestFree(name, taken) ==
    LET base == base_slug(name) IN
    IF base \notin taken THEN base
    ELSE suffixed(base, CHOOSE k \in 1..(MaxNamed + 1) :
                           /\ suffixed(base, k) \notin taken
                           /\ \A j \in 1..(k - 1) : suffixed(base, j) \in taken)

\* C22: createProduct assigns the slug derived from the name: the base slug if no
\* product of the shop uses it, otherwise base-k for the smallest k >= 1 such that
\* base-k is unused; "Red Shoe" gets red-shoe, and red-shoe-1 when red-shoe is in use.
\* The product is stored with the slug so chosen.
C22_SlugFromName ==
    [][\A w \in Workers :
          /\ (lreq[w].pc = "idle" /\ lreq'[w].pc = "insert_one") =>
                LET taken == {d.slug : d \in listing} IN
                /\ lreq'[w].slug = SmallestFree(lreq'[w].name, taken)
                /\ lreq'[w].name = RedShoe =>
                      lreq'[w].slug = IF RedShoeSlug \notin taken THEN RedShoeSlug
                                      ELSE IF RedShoeSlug \o <<"-", "1">> \notin taken
                                      THEN RedShoeSlug \o <<"-", "1">>
                                      ELSE lreq'[w].slug
          /\ (lreq[w].pc = "insert_one" /\ lreq'[w].pc = "idle" /\ listing' # listing) =>
                \E d \in listing' \ listing : d.name = lreq[w].name /\ d.slug = lreq[w].slug]_vars

\* Two products named "Red Shoe" are stored, as red-shoe and red-shoe-1.
C22_Witness ==
    \E d, e \in listing :
       /\ d.name = RedShoe
       /\ e.name = RedShoe
       /\ d.slug = RedShoeSlug
       /\ e.slug = RedShoeSlug \o <<"-", "1">>

Referenced(id) ==
    \/ \E d \in shelf.products : id \in d.category_ids
    \/ \E d \in shelf.categories : d.parent_id = id

\* C24: deleteCategory removes a category only if, at the moment of removal, no
\* product lists it in its category ids and no category has it as parent; a delete
\* that is refused with a conflict (400) leaves the category in place.
C24_DeleteOnlyUnreferenced ==
    [][/\ \A d \in shelf.categories : d \notin shelf'.categories /\
             (\A e \in shelf'.categories : e.id # d.id) => ~Referenced(d.id)
       /\ (dresp' # dresp /\ dresp'.op = "delete_category" /\ dresp'.status = 400) =>
             (shelf' = shelf /\ Referenced(dresp'.id))]_vars

\* ------------------------------------------------------------------ claims: product fields and stock

\* C26: every product that has a compare-at price has compare_price > price,
\* after any sequence of create_product and update_product calls.
C26_ComparePriceAbovePrice ==
    \A d \in goods : d.compare_price # NoCompare => d.compare_price > d.price

\* C27: every product whose allow_backorder flag is false has stock_quantity >= 0,
\* under any interleaving of create_product, update_product and update_inventory.
C27_NoBackorderNonNegative ==
    \A d \in goods : ~d.allow_backorder => d.stock_quantity >= 0

\* C28: whenever no update_inventory call is in flight and the product has
\* history entries, its stock_quantity is the quantity_after of the latest entry,
\* and every entry has quantity_after = quantity_before + quantity_change.
C28_StockMatchesLatestEntry ==
    /\ \A i \in 1..Len(ledger) :
           ledger[i].quantity_after = ledger[i].quantity_before + ledger[i].quantity_change
    /\ (\A w \in Workers : ereq[w].pc = "idle") =>
           \A d \in goods : \A i \in 1..Len(ledger) :
               (/\ ledger[i].product_id = d.id
                /\ \A j \in (i + 1)..Len(ledger) : ledger[j].product_id # d.id) =>
                   d.stock_quantity = ledger[i].quantity_after

\* ------------------------------------------------------------------ claims: registry construction

\* C30: a process that started with no shops.json and with SHOPS_CONFIG unset or
\* not JSON has loaded its registry, which holds exactly tinashop and micocah,
\* both valid and resolvable; a process that started with a shops.json that is
\* not JSON has failed to load and has not turned to the default shops.
C30_DefaultsWhenNoSource ==
    (boot.pc = "idle" /\ boot.boots > 0) =>
        /\ (~boot.config_file.exists /\ ~(boot.SHOPS_CONFIG.exists /\ boot.SHOPS_CONFIG.json)) =>
               /\ boot.result = "loaded"
               /\ boot._shops = {"tinashop", "micocah"}
        /\ (boot.config_file.exists /\ ~boot.config_file.json) =>
               /\ boot.result = "ValueError"
               /\ boot.source # "default"

====
